---- MODULE Spec2Model ----
(***************************************************************************)
(* State-machine model of the moderation bot: the WebRCON client           *)
(* (src/src/rcon/webrcon_client.py), the RCON manager                      *)
(* (src/src/rcon/rcon_manager.py) and the warning command with its         *)
(* revocation flow (src/src/commands/warn.py).                             *)
(***************************************************************************)
EXTENDS Integers, Sequences, FiniteSets, TLC

\* ------------------------------------------------------------------------
\* Bounds of the model
\* ------------------------------------------------------------------------
MaxId == 2
MaxInbox == 2
MaxBroadcasts == 1

\* the concurrent callers of send_command
Procs == {1, 2}

\* Python's None, as a message value
None == "<None>"

\* The text the server answers to the command sent with identifier i
Body(i) == IF i % 2 = 1 THEN "a" ELSE "b"

\* The Message a reply frame to command i can carry: the text, or nothing
Bodies(i) == {"", Body(i)}

\* Message bodies a console broadcast can carry
LogLines == {"", "log"}

VARIABLES
    websocket,          \* WebRCONClient.websocket: "none" | "open" | "closed" (object kept, peer gone)
    identifier,         \* WebRCONClient.identifier
    pending,            \* keys of WebRCONClient._pending_responses
    futures,            \* the asyncio.Future created for each identifier
    listening,          \* WebRCONClient._listening
    listener_task,      \* WebRCONClient._console_listener_task: "none" | "running" | "finished"
    readers,            \* how many tasks made of _console_listener_loop have not ended
    console_callback,   \* WebRCONClient._console_callback is set
    inbox,              \* frames the socket holds for recv(), oldest first
    srvReq,             \* identifiers the server has received and not answered
    nBroadcast,         \* console broadcasts the server has produced
    console_log,        \* frames whose Message was handed to the console callback, in order
    lastResolved,       \* identifier of the request the reader resolved last (0 for none)
    call                \* per caller: the send_command call in progress or just ended

VARIABLES
    client,             \* RCONManager.client: "none" | "obj"
    connected_port,     \* RCONManager.connected_port (0 for None)
    mop,                \* the manager operation in progress or just ended: "none" | "connect" | "send"
    mpc,                \* where the manager task is suspended
    mphase,             \* send_command: 1 up to the first answer, 2 once it reconnects
    ci,                 \* connect: index of the port being tried
    cj,                 \* _connect_to_port: index of the URI being tried
    mresp,              \* send_command: the local variable response
    mout,               \* what the last manager operation gave its caller
    nTx,                \* client.send_command calls made for the command in this send_command
    nReconn             \* reconnects made after a missing answer in this send_command

mgrVars == <<client, connected_port, mop, mpc, mphase, ci, cj, mresp, mout, nTx, nReconn>>

VARIABLES
    now,                \* the database's NOW()
    privileges,         \* rows of table privileges
    warnings,           \* rows of table warnings
    nextWarnId,         \* AUTO_INCREMENT of table warnings
    roles,              \* <<member, role id>>: the guild roles the members hold
    serverGroups,       \* <<steamid, group>>: the groups the game server has
    rconLog,            \* commands given to RCONManager.send_command by the warn flow
    wpc,                \* per warn invocation: where it is suspended
    wuser,              \* per warn invocation: the member warned
    wcount,             \* per warn invocation: warnings_count
    wstarted,           \* per warn invocation: _remove_privileges_for_warnings was called
    wpriv,              \* per warn invocation: the row the flow looked up
    wresp,              \* per warn invocation: the removegroup response
    wpinfo,             \* per warn invocation: what the pinfo re-check showed
    fend                \* per warn invocation: how the revocation flow ended

warnVars == <<now, privileges, warnings, nextWarnId, roles, serverGroups, rconLog,
              wpc, wuser, wcount, wstarted, wpriv, wresp, wpinfo, fend>>

VARIABLES
    running,            \* PrivilegeScheduler.running
    spc,                \* where the scheduler task is: "none" | "check" | "verify" | "apply" | "dead"
    scur,               \* _process_expired_privilege: the row being processed
    sleft,              \* _check_expired_privileges: rows of the pass not processed yet
    sattempt,           \* _verify_group_removed: attempts made for the row
    sabsent,            \* an attempt for the row gave a result without the group
    snotices,           \* <<member, group>>: expiry notifications sent
    sdone,              \* ids of the rows the scheduler deleted
    sfailed,            \* ids of the rows whose verification ran out of attempts
    rcon                \* the connection to the game server: "up" | "down" | "closing"

schedVars == <<running, spc, scur, sleft, sattempt, sabsent, snotices, sdone, sfailed, rcon>>

VARIABLES
    tickets,            \* rows of table tickets
    channels,           \* the ticket channels that exist: [id, guild_id, number]
    nextChannelId,      \* the id the next created channel gets
    tlock,              \* TicketManager._lock: the submission that holds it, 0 for free
    tpc,                \* per modal submission: where on_submit is suspended, or "idle" | "refused"
    tguild,             \* per modal submission: interaction.guild.id
    towner,             \* per modal submission: interaction.user.id
    tnum,               \* per modal submission: ticket_number (0 before it is read)
    tchan               \* per modal submission: channel.id (0 before it is created)

ticketVars == <<tickets, channels, nextChannelId, tlock, tpc, tguild, towner, tnum, tchan>>

VARIABLES
    members,            \* guild.members: per member, member.roles as role ids in order
    roster,             \* what get_admin_members_by_category gave last (None before)
    record,             \* the row of admin_list_messages of the guild
    rmessages,          \* the roster messages that exist: [id, channel_id, fresh]
    nextMessageId,      \* the id the next sent message gets
    rchannels,          \* the text channels of the guild that exist
    rout                \* the last call of the manager and what it returned

rosterVars == <<members, roster, record, rmessages, nextMessageId, rchannels, rout>>

VARIABLES
    users,              \* rows of table users: [discord_id, steamid]
    gpc,                \* addprivilege: "idle" | "pinfo" (waiting for the answer)
    gn,                 \* addprivilege: changes with every invocation
    gsteamid,           \* addprivilege: the parameter steamid, a sequence of characters
    guser,              \* addprivilege: discord_user.id
    gresp,              \* addprivilege: the pinfo response
    gdb,                \* addprivilege: the statement the database refused, "none" for none
    gend                \* addprivilege: how the last invocation ended

grantVars == <<users, gpc, gn, gsteamid, guser, gresp, gdb, gend>>

\* the variables of the components other than the client, the manager and
\* the warning command
VARIABLES
    pin,                \* the arguments and the configuration of a function under study
    pout                \* what it returned: [done, val]

pureVars == <<pin, pout>>

VARIABLES
    process_log,        \* LogReceiver: the events written to the process log
    channel_log,        \* LogReceiver: the events posted to the relay channel
    lreq,               \* LogReceiver: the last request
    lresp,              \* LogReceiver: the status of the last response, 0 for none
    ln                  \* LogReceiver: changes with every request

logVars == <<process_log, channel_log, lreq, lresp, ln>>

VARIABLES
    bready,             \* bot.py: how on_ready ended last: "none" | "done" | "raised"
    cogs,               \* bot.py: the command modules whose cog the bot holds
    bdb,                \* bot.py: global db: "none" | "failed" (no pool) | "open" | "closed"
    brcon,              \* bot.py: global rcon_manager: "none" | "open" | "closed"
    bsched,             \* bot.py: global scheduler: "none" | "started" | "stopped"
    bcleanup            \* bot.py: cleanup: "none" | "done" | the step that raised

botVars == <<bready, cogs, bdb, brcon, bsched, bcleanup>>

VARIABLES
    clients,            \* every WebRCONClient the manager created: "new" | "open" | "closed"
    cref,               \* RCONManager.client as a reference: 0 for None, or the index in clients
    cbs,                \* per WebRCONClient created: its _console_callback is set
    kpc,                \* per manager caller: "idle" | "closing" | "connecting"
    kobj,               \* per manager caller: the WebRCONClient its connect() awaits
    kout                \* per manager caller: what its last call gave

poolVars == <<clients, cref, cbs, kpc, kobj, kout>>

VARIABLES
    cpc,                \* per closer of a ticket: "idle" | "built" | "stored"
    cticket,            \* per closer: ticket_id of the close it runs (0 for none)
    curl                \* per closer: transcript_url it is about to store

closeVars == <<cpc, cticket, curl>>

\* the variables of the components added last
moreVars == <<pureVars, logVars, botVars, poolVars, closeVars>>

laterVars == <<schedVars, ticketVars, rosterVars, grantVars, moreVars>>

clientVars == <<websocket, identifier, pending, futures, listening, listener_task, readers,
                console_callback, inbox, srvReq, nBroadcast, console_log,
                lastResolved, call>>

vars == <<clientVars, mgrVars, warnVars, laterVars>>

NoCall == [st |-> "idle", id |-> 0, res |-> None, how |-> "none"]

\* ------------------------------------------------------------------------
\* WebRCONClient
\* ------------------------------------------------------------------------

\* WebRCONClient.__init__
ClientInit ==
    /\ websocket = "none"
    /\ identifier = 0
    /\ pending = {}
    /\ futures = <<>>
    /\ listening = FALSE
    /\ listener_task = "none"
    /\ readers = 0
    /\ console_callback = FALSE
    /\ inbox = <<>>
    /\ srvReq = {}
    /\ nBroadcast = 0
    /\ console_log = <<>>
    /\ lastResolved = 0
    /\ call = [p \in Procs |-> NoCall]

\* start_console_listener as it would be without the test of _listening
StartListener_Unguarded(ws, l, t) ==
    IF ws = "none" THEN <<l, t, 0>> ELSE <<TRUE, "running", 1>>

\* start_console_listener: the values of (_listening, _console_listener_task)
\* after the call and the number of tasks it created, given the socket it
\* finds
StartListener(ws, l, t) ==
    IF l \/ ws = "none" THEN <<l, t, 0>> ELSE <<TRUE, "running", 1>>

\* stop_console_listener: the tasks that end because it cancels the task it
\* holds and awaits it
Cancelled(t) == IF t = "running" THEN 1 ELSE 0

\* _connect_to_port on a client that may hold a socket already: the socket
\* of one URI connects, replaces the one held, and start_console_listener
\* is called
ConnectAttempt ==
    /\ websocket' = "open"
    /\ LET s == StartListener("open", listening, listener_task)
       IN  /\ listening' = s[1]
           /\ listener_task' = s[2]
           /\ readers' = readers + s[3]
    /\ inbox' = <<>>
    /\ srvReq' = {}
    /\ UNCHANGED <<identifier, pending, futures, console_callback, nBroadcast, console_log, lastResolved, call>>

\* start_console_listener, called on its own
StartConsoleListener ==
    /\ LET s == StartListener(websocket, listening, listener_task)
       IN  /\ listening' = s[1]
           /\ listener_task' = s[2]
           /\ readers' = readers + s[3]
    /\ UNCHANGED <<websocket, identifier, pending, futures, console_callback, inbox, srvReq,
                   nBroadcast, console_log, lastResolved, call>>

\* stop_console_listener, called on its own
StopConsoleListener ==
    /\ listening' = FALSE
    /\ listener_task' = "none"
    /\ readers' = readers - Cancelled(listener_task)
    /\ UNCHANGED <<websocket, identifier, pending, futures, console_callback, inbox, srvReq,
                   nBroadcast, console_log, lastResolved, call>>

\* _connect_to_port, one URI whose socket-level connect succeeds: the socket
\* is stored and the reader is started
ConnectSocket ==
    /\ websocket = "none"
    /\ websocket' = "open"
    /\ LET s == StartListener("open", listening, listener_task)
       IN  /\ listening' = s[1]
           /\ listener_task' = s[2]
           /\ readers' = readers + s[3]
    /\ inbox' = <<>>
    /\ srvReq' = {}
    /\ UNCHANGED <<identifier, pending, futures, console_callback, nBroadcast, console_log, lastResolved, call>>

\* send_command up to its first suspension: no socket -> None; otherwise the
\* identifier is allocated, the Future registered and the frame sent (a send
\* on a socket the peer has closed raises ConnectionClosed, caught by the
\* outer handler, which returns None)
CallSend(p) ==
    /\ call[p].st # "wait"
    /\ identifier < MaxId
    /\ IF websocket = "none"
       THEN /\ call' = [call EXCEPT ![p] = [st |-> "ret", id |-> 0, res |-> None, how |-> "nosocket"]]
            /\ UNCHANGED <<identifier, pending, futures, srvReq>>
       ELSE LET cmd_id == identifier + 1 IN
            /\ identifier' = cmd_id
            /\ futures' = Append(futures, [state |-> "pending", value |-> None])
            /\ pending' = pending \cup {cmd_id}
            /\ IF websocket = "open"
               THEN /\ srvReq' = srvReq \cup {cmd_id}
                    /\ call' = [call EXCEPT ![p] = [st |-> "wait", id |-> cmd_id, res |-> None, how |-> "none"]]
               ELSE /\ srvReq' = srvReq
                    /\ call' = [call EXCEPT ![p] = [st |-> "ret", id |-> cmd_id, res |-> None, how |-> "sendfail"]]
    /\ UNCHANGED <<websocket, listening, listener_task, readers, console_callback, inbox,
                   nBroadcast, console_log, lastResolved>>

\* Timeout as it would be if the handle were left in the table
Timeout_KeepsHandle(p) ==
    /\ call[p].st = "wait"
    /\ futures[call[p].id].state = "pending"
    /\ futures' = [futures EXCEPT ![call[p].id].state = "cancelled"]
    /\ call' = [call EXCEPT ![p].st = "ret", ![p].res = None, ![p].how = "timeout"]
    /\ UNCHANGED <<websocket, identifier, pending, listening, listener_task, readers,
                   console_callback, inbox, srvReq, nBroadcast, console_log, lastResolved>>

\* asyncio.wait_for(future, timeout) expiring: wait_for cancels the Future,
\* the handler pops the identifier and returns None
Timeout(p) ==
    /\ call[p].st = "wait"
    /\ futures[call[p].id].state = "pending"
    /\ futures' = [futures EXCEPT ![call[p].id].state = "cancelled"]
    /\ pending' = pending \ {call[p].id}
    /\ call' = [call EXCEPT ![p].st = "ret", ![p].res = None, ![p].how = "timeout"]
    /\ UNCHANGED <<websocket, identifier, listening, listener_task, readers, console_callback,
                   inbox, srvReq, nBroadcast, console_log, lastResolved>>

\* How the awaiting call ends once its Future is done: a result is returned,
\* a cancelled Future raises CancelledError, which is a BaseException and
\* passes both "except asyncio.TimeoutError" and "except Exception"
WaitOutcome(f) ==
    IF f.state = "result"
    THEN [st |-> "ret", res |-> f.value, how |-> "answer"]
    ELSE [st |-> "raised", res |-> None, how |-> "cancelled"]

\* the caller task resumes after its Future was completed by the reader
Resume(p) ==
    /\ call[p].st = "wait"
    /\ futures[call[p].id].state # "pending"
    /\ LET o == WaitOutcome(futures[call[p].id])
       IN  call' = [call EXCEPT ![p].st = o.st, ![p].res = o.res, ![p].how = o.how]
    /\ pending' = pending \ {call[p].id}
    /\ UNCHANGED <<websocket, identifier, futures, listening, listener_task, readers,
                   console_callback, inbox, srvReq, nBroadcast, console_log,
                   lastResolved>>

\* set_console_callback
SetConsoleCallback(b) ==
    /\ console_callback # b
    /\ console_callback' = b
    /\ UNCHANGED <<websocket, identifier, pending, futures, listening, listener_task, readers,
                   inbox, srvReq, nBroadcast, console_log, lastResolved, call>>

\* Smallest element of a non-empty set of integers
MinOf(S) == CHOOSE x \in S : \A y \in S : x <= y

\* Resolves as it would be if replies were matched by arrival order
Resolves_ByArrival(f) ==
    IF f.Type = 3 THEN 0
    ELSE IF pending # {} THEN MinOf(pending)
    ELSE 0

\* Resolves as it would be without the Type test
Resolves_NoTypeTest(f) ==
    IF f.Identifier # 0 /\ f.Identifier \in pending THEN f.Identifier
    ELSE 0

\* The reader's dispatch of one frame: which pending request it resolves
\* (0 for none)
Resolves(f) ==
    IF f.Type = 3 THEN 0
    ELSE IF f.Identifier # 0 /\ f.Identifier \in pending THEN f.Identifier
    ELSE 0

\* _console_listener_loop, one iteration that receives a frame
ListenerStep ==
    /\ listener_task = "running"
    /\ listening
    /\ websocket # "none"
    /\ inbox # <<>>
    /\ LET f == Head(inbox)
           r == Resolves(f)
       IN  /\ inbox' = Tail(inbox)
           /\ lastResolved' = IF r # 0 /\ futures[r].state = "pending" THEN r ELSE lastResolved
           /\ console_log' = IF f.Type = 3 /\ console_callback /\ f.Message # ""
                             THEN Append(console_log, f)
                             ELSE console_log
           /\ pending' = IF r # 0 THEN pending \ {r} ELSE pending
           /\ futures' = IF r # 0 /\ futures[r].state = "pending"
                         THEN [futures EXCEPT ![r] = [state |-> "result", value |-> f.Message]]
                         ELSE futures
    /\ UNCHANGED <<websocket, identifier, listening, listener_task, readers, console_callback,
                   srvReq, nBroadcast, call>>

\* CancelAll as it would be if the handler only cleared the table
CancelAll_ClearOnly(fs, ids) == fs

\* The Futures after the reader's ConnectionClosed handler
CancelAll(fs, ids) ==
    [i \in DOMAIN fs |->
        IF i \in ids /\ fs[i].state = "pending"
        THEN [fs[i] EXCEPT !.state = "cancelled"]
        ELSE fs[i]]

\* _console_listener_loop: recv() raises ConnectionClosed (the queued frames
\* are delivered first); every pending Future is cancelled, the table is
\* cleared and the loop ends
ListenerClosed ==
    /\ listener_task = "running"
    /\ listening
    /\ websocket = "closed"
    /\ inbox = <<>>
    /\ futures' = CancelAll(futures, pending)
    /\ pending' = {}
    /\ listener_task' = "finished"
    /\ readers' = readers - 1
    /\ UNCHANGED <<websocket, identifier, listening, console_callback, inbox, srvReq,
                   nBroadcast, console_log, lastResolved, call>>

\* close(): stop_console_listener, then the socket is closed and forgotten
Close ==
    /\ websocket # "none"
    /\ listening' = FALSE
    /\ listener_task' = "none"
    /\ readers' = readers - Cancelled(listener_task)
    /\ websocket' = "none"
    /\ inbox' = <<>>
    /\ srvReq' = {}
    /\ UNCHANGED <<identifier, pending, futures, console_callback, nBroadcast, console_log, lastResolved, call>>

\* ------------------------------------------------------------------------
\* The game server and the network
\* ------------------------------------------------------------------------

\* the server answers one of the commands it has received, in any order
ServerReply(i, m) ==
    /\ websocket = "open"
    /\ i \in srvReq
    /\ Len(inbox) < MaxInbox
    /\ inbox' = Append(inbox, [Type |-> 0, Identifier |-> i, Message |-> m])
    /\ srvReq' = srvReq \ {i}
    /\ UNCHANGED <<websocket, identifier, pending, futures, listening, listener_task, readers,
                   console_callback, nBroadcast, console_log, lastResolved, call>>

\* Identifiers a console line can bear: 0, or by coincidence that of a
\* request in the table
BroadcastIds == {0} \cup pending

\* the server emits a console line
ServerBroadcast(i, m) ==
    /\ websocket = "open"
    /\ nBroadcast < MaxBroadcasts
    /\ Len(inbox) < MaxInbox
    /\ inbox' = Append(inbox, [Type |-> 3, Identifier |-> i, Message |-> m])
    /\ nBroadcast' = nBroadcast + 1
    /\ UNCHANGED <<websocket, identifier, pending, futures, listening, listener_task, readers,
                   console_callback, srvReq, console_log, lastResolved, call>>

\* the peer closes the connection
RemoteClose ==
    /\ websocket = "open"
    /\ websocket' = "closed"
    /\ srvReq' = {}
    /\ UNCHANGED <<identifier, pending, futures, listening, listener_task, readers,
                   console_callback, inbox, nBroadcast, console_log,
                   lastResolved, call>>

\* ------------------------------------------------------------------------
\* RCONManager
\* ------------------------------------------------------------------------

\* config.RCON_PORT, the default
RCON_PORT == 28016

\* s without the elements that occur earlier in it (list(dict.fromkeys(s)))
RECURSIVE Dedup(_)
Dedup(s) ==
    IF s = <<>> THEN <<>>
    ELSE LET front == Dedup(SubSeq(s, 1, Len(s) - 1))
             x == s[Len(s)]
         IN  IF \E k \in 1..Len(front) : front[k] = x THEN front ELSE Append(front, x)

\* the test of a port as it would be with "0 <= p <= 65536"
ValidPort_Inclusive(p) == 0 <= p /\ p <= 65536

ValidPort(p) == 0 < p /\ p < 65536

\* WebRCONClient.ports_to_try with try_ports=True
PortsToTry(port) ==
    Dedup(SelectSeq(<<port, port - 2, port + 2, port - 10, port + 10>>, ValidPort))

\* _connect_to_port: the URI shapes tried for one port, in order
UriVariants == <<"ws://host:port/password", "ws://host:port/", "ws://host:port",
                 "wss://host:port/password">>

NoOutcome == [kind |-> "none", val |-> None]

\* RCONManager.__init__
MgrInit ==
    /\ client = "none"
    /\ connected_port = 0
    /\ mop = "none"
    /\ mpc = "idle"
    /\ mphase = 0
    /\ ci = 0
    /\ cj = 0
    /\ mresp = None
    /\ mout = NoOutcome
    /\ nTx = 0
    /\ nReconn = 0

\* Python truthiness of a send_command result
Truthy(r) == r # None /\ r # ""

\* RCONManager.connect up to its first dial: the previous client is closed
\* and dropped, a fresh WebRCONClient is built and its connect starts with
\* the first port and the first URI
BeginConnect ==
    /\ client' = "obj"
    /\ websocket' = "none"
    /\ identifier' = 0
    /\ pending' = {}
    /\ futures' = <<>>
    /\ listening' = FALSE
    /\ listener_task' = "none"
    /\ readers' = 0
    /\ console_callback' = FALSE
    /\ inbox' = <<>>
    /\ srvReq' = {}
    /\ call' = [call EXCEPT ![1] = NoCall]
    /\ ci' = 1
    /\ cj' = 1
    /\ mpc' = "dial"
    /\ UNCHANGED <<nBroadcast, console_log, lastResolved, connected_port>>

\* the manager operation ends and hands o to its caller
MgrReturn(o) ==
    /\ mpc' = "idle"
    /\ mout' = o

\* RCONManager.connect (called at start-up by the ready handler)
MgrCallConnect ==
    /\ mpc = "idle"
    /\ mop' = "connect"
    /\ mresp' = None
    /\ mphase' = 0
    /\ nTx' = 0
    /\ nReconn' = 0
    /\ mout' = NoOutcome
    /\ BeginConnect

\* RCONManager.send_command up to its first suspension: the lazy connect
\* when there is no client or no socket, the first client.send_command
\* otherwise
MgrCallSend ==
    /\ mpc = "idle"
    /\ mop' = "send"
    /\ mresp' = None
    /\ mphase' = 1
    /\ nReconn' = 0
    /\ mout' = NoOutcome
    /\ IF client = "none" \/ websocket = "none"
       THEN /\ nTx' = 0
            /\ BeginConnect
       ELSE /\ nTx' = 1
            /\ mpc' = "send"
            /\ CallSend(1)
            /\ UNCHANGED <<client, connected_port, ci, cj>>

\* connect / _connect_to_port moving on to the next URI, the next port, or
\* failing when none is left; on failure RCONManager.connect drops the client
\* and send_command returns None (lazy connect) or the first response
NextCombo ==
    IF cj < Len(UriVariants)
    THEN /\ cj' = cj + 1 /\ ci' = ci /\ mpc' = "dial"
         /\ UNCHANGED <<client, mout, mphase>>
    ELSE IF ci < Len(PortsToTry(RCON_PORT))
    THEN /\ ci' = ci + 1 /\ cj' = 1 /\ mpc' = "dial"
         /\ UNCHANGED <<client, mout, mphase>>
    ELSE /\ client' = "none"
         /\ UNCHANGED <<ci, cj, mphase>>
         /\ MgrReturn(IF mop = "connect" THEN [kind |-> "connected", val |-> "False"]
                      ELSE [kind |-> "absent", val |-> mresp])

\* _connect_to_port: websockets.connect for the current URI succeeds (the
\* socket is stored and the reader started) or fails (exception or timeout)
Dial(ok) ==
    /\ mpc = "dial"
    /\ IF ok
       THEN /\ ConnectSocket
            /\ mpc' = "dialled"
            /\ UNCHANGED <<client, connected_port, mop, mphase, ci, cj, mresp, mout, nTx, nReconn>>
       ELSE /\ NextCombo
            /\ UNCHANGED <<clientVars, connected_port, mop, mresp, nTx, nReconn>>

\* _connect_to_port: the version probe is sent
ProbeSend ==
    /\ mpc = "dialled"
    /\ CallSend(1)
    /\ mpc' = "probe"
    /\ UNCHANGED <<client, connected_port, mop, mphase, ci, cj, mresp, mout, nTx, nReconn>>

\* _connect_to_port after the probe: a non-empty answer makes the port the
\* connected one; no answer closes the socket and moves on; CancelledError
\* is caught nowhere and leaves connect and the manager operation
AfterProbe ==
    /\ mpc = "probe"
    /\ call[1].st \in {"ret", "raised"}
    /\ IF call[1].st = "raised"
       THEN /\ MgrReturn([kind |-> "raised", val |-> "CancelledError"])
            /\ UNCHANGED <<clientVars, client, connected_port, mop, mphase, ci, cj, mresp, nTx, nReconn>>
       ELSE IF Truthy(call[1].res)
       THEN /\ connected_port' = PortsToTry(RCON_PORT)[ci]
            /\ IF mop = "connect"
               THEN MgrReturn([kind |-> "connected", val |-> "True"])
               ELSE mpc' = "connected" /\ mout' = mout
            /\ UNCHANGED <<clientVars, client, mop, mphase, ci, cj, mresp, nTx, nReconn>>
       ELSE /\ listening' = FALSE
            /\ listener_task' = "none"
            /\ readers' = readers - Cancelled(listener_task)
            /\ websocket' = "none"
            /\ inbox' = <<>>
            /\ srvReq' = {}
            /\ NextCombo
            /\ UNCHANGED <<identifier, pending, futures, console_callback, nBroadcast,
                           console_log, lastResolved, call, connected_port, mop, mresp, nTx, nReconn>>

\* RCONManager.send_command after a successful connect: the command goes
\* to client.send_command
MgrClientSend ==
    /\ mpc = "connected"
    /\ CallSend(1)
    /\ mpc' = "send"
    /\ nTx' = nTx + 1
    /\ UNCHANGED <<client, connected_port, mop, mphase, ci, cj, mresp, mout, nReconn>>

\* Retries as it would be if the manager retried after every missing answer
Retries_Always(phase) == TRUE

\* what RCONManager.send_command does with a response that is not an
\* answer: TRUE when it reconnects and retries
Retries(phase) == phase = 1

\* RCONManager.send_command once client.send_command has ended: an answer is
\* returned; without an answer the first attempt reconnects, the retry
\* returns what it got; CancelledError passes through
AfterSend ==
    /\ mpc = "send"
    /\ call[1].st \in {"ret", "raised"}
    /\ IF call[1].st = "raised"
       THEN /\ MgrReturn([kind |-> "raised", val |-> "CancelledError"])
            /\ UNCHANGED <<clientVars, client, connected_port, mop, mphase, ci, cj, mresp, nTx, nReconn>>
       ELSE /\ mresp' = call[1].res
            /\ IF Truthy(call[1].res)
               THEN /\ MgrReturn([kind |-> "answer", val |-> call[1].res])
                    /\ UNCHANGED <<clientVars, client, connected_port, mop, mphase, ci, cj, nTx, nReconn>>
               ELSE IF Retries(mphase)
               THEN /\ mphase' = 2
                    /\ nReconn' = nReconn + 1
                    /\ BeginConnect
                    /\ UNCHANGED <<mop, mout, nTx>>
               ELSE /\ MgrReturn([kind |-> "absent", val |-> call[1].res])
                    /\ UNCHANGED <<clientVars, client, connected_port, mop, mphase, ci, cj, nTx, nReconn>>

\* ------------------------------------------------------------------------
\* Response parsers (src/src/utils/parsers.py)
\* A response text is the sequence of its words.
\* ------------------------------------------------------------------------

\* str.lower on the words that occur in the responses
Lower(w) ==
    CASE w = "Player" -> "player"
      [] w = "Removed" -> "removed"
      [] w = "Config" -> "config"
      [] w = "Saved" -> "saved"
      [] w = "No" -> "no"
      [] w = "Group" -> "group"
      [] w = "VIP" -> "vip"
      [] w = "Admin" -> "admin"
      [] w = "ADMIN" -> "admin"
      [] w = "Owner" -> "owner"
      [] w = "Helper" -> "helper"
      [] w = "Moderator" -> "moderator"
      [] OTHER -> w

LowerAll(t) == [k \in 1..Len(t) |-> Lower(t[k])]

\* a word that is a markup tag: <color=...>, </color> or any other <...>
IsTag(w) == w \in {"<color=red>", "</color>", "<b>"}

NotTag(w) == ~IsTag(w)

\* remove_color_tags
remove_color_tags(t) == SelectSeq(t, NotTag)

\* phrase in text
Contains(t, phrase) ==
    \E k \in 0..(Len(t) - Len(phrase)) :
        \A j \in 1..Len(phrase) : t[k + j] = phrase[j]

\* parse_removegroup_response: success_phrases (the first one is the
\* localized phrase, transliterated)
success_phrases ==
    { <<"vy", "uspeshno", "isklyuchili", "igroka">>,
      <<"removed", "from", "group">>,
      <<"removed">>,
      <<"config", "saved">>,
      <<"player", "'", "removed", "from", "group">>,
      <<"successfully", "removed">>,
      <<"group", "removed">> }

\* parse_removegroup_response
parse_removegroup_response(response) ==
    IF response = None \/ response = <<>>
    THEN FALSE
    ELSE \E phrase \in success_phrases :
            Contains(LowerAll(remove_color_tags(response)), phrase)

\* ------------------------------------------------------------------------
\* Database (src/src/database/models.py)
\* ------------------------------------------------------------------------

\* SQL NULL in expires_at
NULL == -1

NoRow == [id |-> 0, discord_id |-> 0, steamid |-> "", group_name |-> "",
          expires_at |-> NULL, permanent |-> FALSE, created_at |-> 0]

\* the WHERE clause of get_privilege_by_discord
IsActive(r) == r.expires_at = NULL \/ r.expires_at > now \/ r.permanent

\* get_privilege_by_discord as it would be without the test on the expiry
get_privilege_by_discord_AnyRow(discord_id) ==
    LET rows == {r \in privileges : r.discord_id = discord_id}
    IN  IF rows = {} THEN NoRow
        ELSE CHOOSE r \in rows :
                \A o \in rows : o.created_at < r.created_at
                                 \/ (o.created_at = r.created_at /\ o.id <= r.id)

\* Database.get_privilege_by_discord: the newest active row, NoRow for none
get_privilege_by_discord(discord_id) ==
    LET rows == {r \in privileges : r.discord_id = discord_id /\ IsActive(r)}
    IN  IF rows = {} THEN NoRow
        ELSE CHOOSE r \in rows :
                \A o \in rows : o.created_at < r.created_at
                                 \/ (o.created_at = r.created_at /\ o.id <= r.id)

\* Database.get_warnings_count
get_warnings_count(discord_id, category) ==
    Cardinality({r \in warnings : r.discord_id = discord_id /\ r.category = category})

\* Database.delete_privileges_by_discord
delete_privileges_by_discord(discord_id) ==
    {r \in privileges : r.discord_id # discord_id}

\* Database.delete_warnings_by_discord
delete_warnings_by_discord(discord_id) ==
    {r \in warnings : r.discord_id # discord_id}

\* ------------------------------------------------------------------------
\* Warning command (src/src/commands/warn.py)
\* ------------------------------------------------------------------------
MaxWarnings == 4
MaxTime == 2

\* the guild members that get warned
Users == {1, 2}

\* the warn invocations that can be in progress together
Cmds == {1, 2}

\* PUNISHMENT_LIMITS['recruitment'] and PUNISHMENT_LIMITS['donat'], the defaults
LimitRecruitment == 3
LimitDonat == 2

\* get_user_category
get_user_category(user) == 0

\* warn: limit
LimitOf(category) == IF category = 0 THEN LimitRecruitment ELSE LimitDonat

\* ROLE_MAPPINGS.get(group) or the role_mappings row; 0 for no role
RoleMapping(group) ==
    CASE group = "vip" -> 10
      [] group = "admin" -> 20
      [] OTHER -> 0

\* privileges rows the store can hold when the bot starts
StoredRows ==
    { [id |-> 1, discord_id |-> 1, steamid |-> "s1", group_name |-> "VIP",
       expires_at |-> 1, permanent |-> FALSE, created_at |-> 0],
      [id |-> 2, discord_id |-> 1, steamid |-> "s1", group_name |-> "helper",
       expires_at |-> 2, permanent |-> FALSE, created_at |-> 0],
      [id |-> 3, discord_id |-> 2, steamid |-> "s2", group_name |-> "Admin",
       expires_at |-> NULL, permanent |-> TRUE, created_at |-> 0] }

\* what RCONManager.send_command can give for removegroup: no answer, an
\* empty answer, or a text
RemovegroupResponses ==
    { None,
      <<>>,
      <<"Player", "<color=red>", "Removed", "</color>", "from", "group">>,
      <<"Config", "Saved">>,
      <<"No", "such", "group">> }

WarnInitWith(rows) ==
    /\ now = 0
    /\ privileges = rows
    /\ warnings = {}
    /\ nextWarnId = 1
    /\ roles = {<<r.discord_id, RoleMapping(Lower(r.group_name))>> :
                    r \in {x \in privileges : RoleMapping(Lower(x.group_name)) # 0}}
    /\ serverGroups = {<<r.steamid, Lower(r.group_name)>> : r \in privileges}
    /\ rconLog = <<>>
    /\ wpc = [w \in Cmds |-> "idle"]
    /\ wuser = [w \in Cmds |-> 0]
    /\ wcount = [w \in Cmds |-> 0]
    /\ wstarted = [w \in Cmds |-> FALSE]
    /\ wpriv = [w \in Cmds |-> NoRow]
    /\ wresp = [w \in Cmds |-> None]
    /\ wpinfo = [w \in Cmds |-> "none"]
    /\ fend = [w \in Cmds |-> "none"]

\* the bot starts on a store that holds any of the rows
WarnInit == \E rows \in SUBSET StoredRows : WarnInitWith(rows)

\* time passes
Tick ==
    /\ now < MaxTime
    /\ now' = now + 1
    /\ UNCHANGED <<privileges, warnings, nextWarnId, roles, serverGroups, rconLog,
                   wpc, wuser, wcount, wstarted, wpriv, wresp, wpinfo, fend>>

\* warn up to the end of create_warning: outside a guild the command only
\* answers with an error; otherwise the Warning row is inserted
WarnCreate(w, user, inGuild) ==
    /\ wpc[w] \in {"idle", "done"}
    /\ nextWarnId <= MaxWarnings
    /\ wuser' = [wuser EXCEPT ![w] = user]
    /\ wcount' = [wcount EXCEPT ![w] = 0]
    /\ wstarted' = [wstarted EXCEPT ![w] = FALSE]
    /\ wpriv' = [wpriv EXCEPT ![w] = NoRow]
    /\ wresp' = [wresp EXCEPT ![w] = None]
    /\ wpinfo' = [wpinfo EXCEPT ![w] = "none"]
    /\ fend' = [fend EXCEPT ![w] = "none"]
    /\ IF inGuild
       THEN /\ warnings' = warnings \cup
                    {[id |-> nextWarnId, discord_id |-> user,
                      category |-> get_user_category(user)]}
            /\ nextWarnId' = nextWarnId + 1
            /\ wpc' = [wpc EXCEPT ![w] = "count"]
       ELSE /\ wpc' = [wpc EXCEPT ![w] = "done"]
            /\ UNCHANGED <<warnings, nextWarnId>>
    /\ UNCHANGED <<now, privileges, roles, serverGroups, rconLog>>

\* warn: get_warnings_count
WarnCount(w) ==
    /\ wpc[w] = "count"
    /\ wcount' = [wcount EXCEPT ![w] =
                    get_warnings_count(wuser[w], get_user_category(wuser[w]))]
    /\ wpc' = [wpc EXCEPT ![w] = "notify"]
    /\ UNCHANGED <<now, privileges, warnings, nextWarnId, roles, serverGroups, rconLog,
                   wuser, wstarted, wpriv, wresp, wpinfo, fend>>

\* ReachedLimit as it would be with a strict comparison
ReachedLimit_Strict(count, limit) == count > limit

\* warn: the test that starts the revocation flow
ReachedLimit(count, limit) == count >= limit

\* warn after the count: the notices are sent (channel, direct message with
\* Forbidden tolerated, follow-up) and the limit is tested; at the limit
\* _remove_privileges_for_warnings is entered
WarnNotify(w) ==
    /\ wpc[w] = "notify"
    /\ IF ReachedLimit(wcount[w], LimitOf(get_user_category(wuser[w])))
       THEN /\ wstarted' = [wstarted EXCEPT ![w] = TRUE]
            /\ wpc' = [wpc EXCEPT ![w] = "lookup"]
       ELSE /\ wstarted' = wstarted
            /\ wpc' = [wpc EXCEPT ![w] = "done"]
    /\ UNCHANGED <<now, privileges, warnings, nextWarnId, roles, serverGroups, rconLog,
                   wuser, wcount, wpriv, wresp, wpinfo, fend>>

\* _remove_privileges_for_warnings up to the removegroup command: without an
\* active privilege it returns; otherwise removegroup goes to the manager
FlowLookup(w) ==
    /\ wpc[w] = "lookup"
    /\ LET privilege == get_privilege_by_discord(wuser[w]) IN
       /\ wpriv' = [wpriv EXCEPT ![w] = privilege]
       /\ IF privilege = NoRow
          THEN /\ fend' = [fend EXCEPT ![w] = "no privilege"]
               /\ wpc' = [wpc EXCEPT ![w] = "done"]
               /\ rconLog' = rconLog
          ELSE /\ fend' = fend
               /\ wpc' = [wpc EXCEPT ![w] = "removegroup"]
               /\ rconLog' = Append(rconLog,
                                <<"removegroup", privilege.steamid, privilege.group_name>>)
    /\ UNCHANGED <<now, privileges, warnings, nextWarnId, roles, serverGroups,
                   wuser, wcount, wstarted, wresp, wpinfo>>

\* the name asyncio in the globals of warn.py: the module never imports it
\* (the only import is local to setup)
AsyncioBound_Imported == TRUE

AsyncioBound == FALSE

\* what RCONManager.send_command gives for the pinfo re-check: no answer, or
\* whether the server lists the group
PinfoShows(answered, listed) ==
    IF ~answered THEN "no answer"
    ELSE IF listed THEN "present" ELSE "absent"

\* _remove_privileges_for_warnings from the removegroup response on.
\* No response: reported, return.  CancelledError: passes "except Exception".
\* Response without a success phrase: reported, return.  Otherwise
\* asyncio.sleep(2) is evaluated: with asyncio unbound it raises NameError,
\* which the handler reports.  The statements after it: pinfo re-check, return
\* when the group is still listed, else role removal and the two deletes.
\* removed: the server took the group away; answered: pinfo got an answer.
FlowRemovegroup(w, response, cancelled, removed, answered) ==
    /\ wpc[w] = "removegroup"
    /\ wpc' = [wpc EXCEPT ![w] = "done"]
    /\ LET privilege == wpriv[w]
           key == <<privilege.steamid, Lower(privilege.group_name)>>
           shows == PinfoShows(answered, key \in serverGroups /\ ~removed)
       IN
       /\ serverGroups' = IF removed THEN serverGroups \ {key} ELSE serverGroups
       /\ IF cancelled
          THEN /\ fend' = [fend EXCEPT ![w] = "CancelledError"]
               /\ UNCHANGED <<privileges, warnings, roles, rconLog, wresp, wpinfo>>
          ELSE
          /\ wresp' = [wresp EXCEPT ![w] = response]
          /\ IF response = None \/ response = <<>>
             THEN /\ fend' = [fend EXCEPT ![w] = "no answer"]
                  /\ UNCHANGED <<privileges, warnings, roles, rconLog, wpinfo>>
             ELSE IF ~parse_removegroup_response(response)
             THEN /\ fend' = [fend EXCEPT ![w] = "not confirmed"]
                  /\ UNCHANGED <<privileges, warnings, roles, rconLog, wpinfo>>
             ELSE IF ~AsyncioBound
             THEN /\ fend' = [fend EXCEPT ![w] = "NameError"]
                  /\ UNCHANGED <<privileges, warnings, roles, rconLog, wpinfo>>
             ELSE /\ rconLog' = Append(rconLog, <<"pinfo", privilege.steamid, "">>)
                  /\ wpinfo' = [wpinfo EXCEPT ![w] = shows]
                  /\ IF shows = "present"
                     THEN /\ fend' = [fend EXCEPT ![w] = "still present"]
                          /\ UNCHANGED <<privileges, warnings, roles>>
                     ELSE /\ fend' = [fend EXCEPT ![w] = "revoked"]
                          /\ roles' = roles \ {<<wuser[w], RoleMapping(Lower(privilege.group_name))>>}
                          /\ privileges' = delete_privileges_by_discord(wuser[w])
                          /\ warnings' = delete_warnings_by_discord(wuser[w])
    /\ UNCHANGED <<now, nextWarnId, wuser, wcount, wstarted, wpriv>>

\* ------------------------------------------------------------------------
\* pinfo answers (src/src/utils/parsers.py)
\* ------------------------------------------------------------------------

\* config.GROUP_NAME_DATABASE and config.GROUP_HIERARCHY, the defaults
GROUP_NAME_DATABASE == <<"moderator", "moder", "adminl1", "admin", "owner", "helper">>

GROUP_HIERARCHY == <<"owner", "admin", "adminl1", "moderator", "moder", "helper">>

InSeq(x, q) == \E k \in 1..Len(q) : q[k] = x

\* One line of a pinfo answer.  kind "noinfo": "There is no info about this
\* player"; "until": "<name> until <Day>, DD Month YYYY HH:MM UTC", date 0
\* when parse_utc_datetime gives None for it; "bare": a line that is only a
\* name; "text": any other line
Line(kind, name, date) == [kind |-> kind, name |-> name, date |-> date]

NoPrivileges == [has_privileges |-> FALSE, groups |-> <<>>]

\* a match of the dated pattern whose date parse_utc_datetime accepts
IsDated(l) == l.kind = "until" /\ l.date # 0

DatedGroup(l) == [name |-> l.name, expires_at_utc |-> l.date, permanent |-> FALSE]

\* parse_pinfo_response, the loop over the lines: a bare name of
\* GROUP_NAME_DATABASE not among the groups yet is added as permanent
RECURSIVE AddPermanent(_, _)
AddPermanent(lines, groups) ==
    IF lines = <<>> THEN groups
    ELSE LET l == Head(lines)
             take == /\ l.kind = "bare"
                     /\ InSeq(Lower(l.name), GROUP_NAME_DATABASE)
                     /\ ~\E k \in 1..Len(groups) : Lower(groups[k].name) = Lower(l.name)
         IN  AddPermanent(Tail(lines),
                IF take
                THEN Append(groups, [name |-> l.name, expires_at_utc |-> NULL, permanent |-> TRUE])
                ELSE groups)

\* parse_pinfo_response
parse_pinfo_response(response) ==
    IF response = None \/ response = <<>> THEN NoPrivileges
    ELSE IF \E k \in 1..Len(response) : response[k].kind = "noinfo" THEN NoPrivileges
    ELSE LET matches == SelectSeq(response, IsDated)
             dated == [k \in 1..Len(matches) |-> DatedGroup(matches[k])]
             groups == AddPermanent(response, dated)
         IN  [has_privileges |-> Len(groups) > 0, groups |-> groups]

\* the elements of a finite set in some order
RECURSIVE SetToSeq(_)
SetToSeq(S) ==
    IF S = {} THEN <<>>
    ELSE LET x == CHOOSE y \in S : TRUE IN <<x>> \o SetToSeq(S \ {x})

\* the lines "<name> until <date>" for these names
RECURSIVE DatedLines(_)
DatedLines(names) ==
    IF names = <<>> THEN <<>>
    ELSE <<Line("until", Head(names), 1)>> \o DatedLines(Tail(names))

\* what the game server prints for pinfo <steamid>: its groups of that
\* player, each with its expiry, or that it knows nothing of the player
PinfoAnswer(steamid) ==
    LET gs == {k[2] : k \in {x \in serverGroups : x[1] = steamid}}
    IN  IF gs = {} THEN <<Line("noinfo", "", 0)>>
        ELSE DatedLines(SetToSeq(gs))

\* ------------------------------------------------------------------------
\* PrivilegeScheduler (src/src/tasks/scheduler.py)
\* ------------------------------------------------------------------------

\* config.MAX_REMOVAL_RETRIES, the default
MAX_REMOVAL_RETRIES == 3

\* PrivilegeScheduler.__init__
SchedInit ==
    /\ running = FALSE
    /\ spc = "none"
    /\ scur = NoRow
    /\ sleft = {}
    /\ sattempt = 0
    /\ sabsent = FALSE
    /\ snotices = {}
    /\ sdone = {}
    /\ sfailed = {}
    /\ rcon = "up"

\* Database.get_expired_privileges
get_expired_privileges ==
    {r \in privileges : r.expires_at # NULL /\ r.expires_at <= now /\ ~r.permanent}

\* Database.delete_privilege
delete_privilege(privilege_id) == {r \in privileges : r.id # privilege_id}

\* PrivilegeScheduler.start
SchedStart ==
    /\ ~running
    /\ running' = TRUE
    /\ spc' = "check"
    /\ UNCHANGED <<scur, sleft, sattempt, sabsent, snotices, sdone, sfailed, rcon>>
    /\ UNCHANGED warnVars

\* _scheduler_loop, one pass that finds expired rows: they are fetched (in
\* the order the database gives them) and the first one is taken up
SchedCheck ==
    /\ running
    /\ spc = "check"
    /\ \E r \in get_expired_privileges :
          /\ scur' = r
          /\ sleft' = get_expired_privileges \ {r}
    /\ sattempt' = 0
    /\ sabsent' = FALSE
    /\ spc' = "verify"
    /\ UNCHANGED <<running, snotices, sdone, sfailed, rcon>>
    /\ UNCHANGED warnVars

\* the scheduler goes on after a row: the next row of the pass, or the sleep
\* that ends the pass
SchedNext(left) ==
    IF left = {}
    THEN /\ spc' = "check"
         /\ scur' = NoRow
         /\ sleft' = {}
    ELSE /\ spc' = "verify"
         /\ \E r \in left :
               /\ scur' = r
               /\ sleft' = left \ {r}

\* the group is absent from a parsed pinfo answer
GroupAbsent(pinfo_data, group_name) ==
    \/ ~pinfo_data.has_privileges
    \/ ~\E k \in 1..Len(pinfo_data.groups) :
            Lower(pinfo_data.groups[k].name) = Lower(group_name)

\* GroupAbsent as it would be if an unanswered pinfo counted as absence
Verified_NoAnswerCounts(response, group_name) ==
    GroupAbsent(parse_pinfo_response(response), group_name)

\* _verify_group_removed, the outcome of one attempt with this response
Verified(response, group_name) ==
    /\ response # None
    /\ response # <<>>
    /\ GroupAbsent(parse_pinfo_response(response), group_name)

\* what RCONManager.send_command gives for pinfo in the three conditions of
\* the connection: an answer, nothing, or (the socket closing while the
\* command is pending) CancelledError
PinfoResponse(steamid) ==
    IF rcon = "up" THEN PinfoAnswer(steamid) ELSE None

\* _verify_group_removed, one attempt.  CancelledError is not an Exception:
\* it leaves _verify_group_removed, _process_expired_privilege,
\* _check_expired_privileges and _scheduler_loop, and the task ends
SchedAttempt ==
    /\ spc = "verify"
    /\ IF rcon = "closing"
       THEN /\ spc' = "dead"
            /\ sattempt' = sattempt + 1
            /\ UNCHANGED <<scur, sleft, sabsent, sfailed>>
       ELSE IF Verified(PinfoResponse(scur.steamid), scur.group_name)
       THEN /\ spc' = "apply"
            /\ sabsent' = TRUE
            /\ sattempt' = sattempt + 1
            /\ UNCHANGED <<scur, sleft, sfailed>>
       ELSE IF sattempt + 1 < MAX_REMOVAL_RETRIES
       THEN /\ sattempt' = sattempt + 1
            /\ UNCHANGED <<spc, scur, sleft, sabsent, sfailed>>
       ELSE /\ sattempt' = 0
            /\ sabsent' = FALSE
            /\ sfailed' = sfailed \cup {scur.id}
            /\ SchedNext(sleft)
    /\ UNCHANGED <<running, snotices, sdone, rcon>>
    /\ UNCHANGED warnVars

\* _process_expired_privilege after a successful verification: fetch_user
\* (found, NotFound, or another error that ends the pass), the role removed
\* wherever held, the row deleted, the notifications sent
SchedApply(user) ==
    /\ spc = "apply"
    /\ sattempt' = 0
    /\ sabsent' = FALSE
    /\ IF user = "error"
       THEN /\ spc' = "check"
            /\ scur' = NoRow
            /\ sleft' = {}
            /\ UNCHANGED <<privileges, roles, snotices, sdone>>
       ELSE /\ privileges' = delete_privilege(scur.id)
            /\ sdone' = sdone \cup {scur.id}
            /\ roles' = IF user = "found"
                        THEN roles \ {<<scur.discord_id, RoleMapping(Lower(scur.group_name))>>}
                        ELSE roles
            /\ snotices' = IF user = "found"
                           THEN snotices \cup {<<scur.discord_id, scur.group_name>>}
                           ELSE snotices
            /\ SchedNext(sleft)
    /\ UNCHANGED <<running, sfailed, rcon>>
    /\ UNCHANGED <<now, warnings, nextWarnId, serverGroups, rconLog,
                   wpc, wuser, wcount, wstarted, wpriv, wresp, wpinfo, fend>>

\* the connection to the game server changes its condition
RconTurns(c) ==
    /\ rcon # c
    /\ rcon' = c
    /\ UNCHANGED <<running, spc, scur, sleft, sattempt, sabsent, snotices, sdone, sfailed>>
    /\ UNCHANGED warnVars

\* the game server takes an expired group away from a player
ServerDrops(key) ==
    /\ key \in serverGroups
    /\ serverGroups' = serverGroups \ {key}
    /\ UNCHANGED schedVars
    /\ UNCHANGED <<now, privileges, warnings, nextWarnId, roles, rconLog,
                   wpc, wuser, wcount, wstarted, wpriv, wresp, wpinfo, fend>>

\* ------------------------------------------------------------------------
\* Tickets (src/src/commands/tickets.py, src/src/database/models.py)
\* ------------------------------------------------------------------------

\* rows of tickets the store can come to hold: with submissions that
\* overlap, and with submissions one after the other
MaxTickets == 2
MaxSeqTickets == 3

\* ticket channels created at most before a new submission is taken
MaxChannels == 3

Guilds == {1, 2}

Owners == {1, 2}

\* the modal submissions that can be in progress together
Subs == {1, 2}

NoTicket == [id |-> 0, ticket_number |-> 0, guild_id |-> 0, channel_id |-> 0,
             owner_id |-> 0, status |-> "none", transcript_url |-> NULL]

MaxOf(S) == CHOOSE x \in S : \A y \in S : y <= x

\* get_next_ticket_number as it would be if only open tickets were counted
get_next_ticket_number_OpenOnly(guild_id) ==
    LET nums == {t.ticket_number : t \in {x \in tickets : x.guild_id = guild_id /\ x.status = "open"}}
    IN  IF nums = {} THEN 1 ELSE MaxOf(nums) + 1

\* Database.get_next_ticket_number: COALESCE(MAX(ticket_number), 0) + 1
get_next_ticket_number(guild_id) ==
    LET nums == {t.ticket_number : t \in {x \in tickets : x.guild_id = guild_id}}
    IN  IF nums = {} THEN 1 ELSE MaxOf(nums) + 1

\* get_open_ticket_by_owner as it would be with its two parameters exchanged
get_open_ticket_by_owner_Swapped(guild_id, owner_id) ==
    LET rows == {x \in tickets : x.guild_id = owner_id /\ x.owner_id = guild_id
                                 /\ x.status = "open"}
    IN  IF rows = {} THEN NoTicket
        ELSE CHOOSE r \in rows : \A o \in rows : o.id <= r.id

\* Database.get_open_ticket_by_owner: the newest open ticket of the owner in
\* the guild, NoTicket for none
get_open_ticket_by_owner(guild_id, owner_id) ==
    LET rows == {x \in tickets : x.guild_id = guild_id /\ x.owner_id = owner_id
                                 /\ x.status = "open"}
    IN  IF rows = {} THEN NoTicket
        ELSE CHOOSE r \in rows : \A o \in rows : o.id <= r.id

\* Database.create_ticket
create_ticket(guild_id, channel_id, owner_id, ticket_number) ==
    tickets \cup {[id |-> Cardinality(tickets) + 1, ticket_number |-> ticket_number,
                   guild_id |-> guild_id, channel_id |-> channel_id,
                   owner_id |-> owner_id, status |-> "open", transcript_url |-> NULL]}

\* Database.close_ticket: UPDATE tickets SET status = 'closed',
\* transcript_url = %s WHERE id = %s
close_ticket(ticket_id, transcript_url) ==
    {IF t.id = ticket_id
     THEN [t EXCEPT !.status = "closed", !.transcript_url = transcript_url]
     ELSE t : t \in tickets}

\* TicketManager.__init__ on an empty table
TicketInit ==
    /\ tickets = {}
    /\ channels = {}
    /\ nextChannelId = 1
    /\ tlock = 0
    /\ tpc = [s \in Subs |-> "idle"]
    /\ tguild = [s \in Subs |-> 0]
    /\ towner = [s \in Subs |-> 0]
    /\ tnum = [s \in Subs |-> 0]
    /\ tchan = [s \in Subs |-> 0]

\* the states of on_submit in which it is not running: "refused" after it
\* refused a submission (its guild and user are kept), "idle" otherwise
Ended == {"idle", "refused"}

\* TicketModal.on_submit up to interaction.response.defer: with the system
\* disabled or outside a guild it answers and returns; with an open ticket of
\* the user in the guild it refuses; otherwise the creation begins
TicketSubmit(s, guild, owner, enabled, inGuild) ==
    /\ tpc[s] \in Ended
    /\ tnum' = [tnum EXCEPT ![s] = 0]
    /\ tchan' = [tchan EXCEPT ![s] = 0]
    /\ IF ~enabled \/ ~inGuild
       THEN /\ tpc' = [tpc EXCEPT ![s] = "idle"]
            /\ tguild' = [tguild EXCEPT ![s] = 0]
            /\ towner' = [towner EXCEPT ![s] = 0]
       ELSE /\ tguild' = [tguild EXCEPT ![s] = guild]
            /\ towner' = [towner EXCEPT ![s] = owner]
            /\ tpc' = [tpc EXCEPT ![s] =
                         IF get_open_ticket_by_owner(guild, owner) # NoTicket
                         THEN "refused" ELSE "create"]
    /\ UNCHANGED <<tickets, channels, nextChannelId, tlock>>

\* create_ticket_channel up to the lock: a missing category raises
\* ValueError, which on_submit reports; otherwise the lock is awaited
TicketAcquire(s, configured) ==
    /\ tpc[s] = "create"
    /\ IF ~configured
       THEN /\ tpc' = [tpc EXCEPT ![s] = "idle"]
            /\ tguild' = [tguild EXCEPT ![s] = 0]
            /\ towner' = [towner EXCEPT ![s] = 0]
            /\ tlock' = tlock
       ELSE /\ tlock = 0
            /\ tlock' = s
            /\ tpc' = [tpc EXCEPT ![s] = "locked"]
            /\ UNCHANGED <<tguild, towner>>
    /\ UNCHANGED <<tickets, channels, nextChannelId, tnum, tchan>>

\* create_ticket_channel inside the lock: the number is read and the lock
\* released
TicketNumber(s) ==
    /\ tpc[s] = "locked"
    /\ tlock = s
    /\ tnum' = [tnum EXCEPT ![s] = get_next_ticket_number(tguild[s])]
    /\ tlock' = 0
    /\ tpc' = [tpc EXCEPT ![s] = "channel"]
    /\ UNCHANGED <<tickets, channels, nextChannelId, tguild, towner, tchan>>

\* create_ticket_channel: guild.create_text_channel, which can fail
TicketChannel(s, ok) ==
    /\ tpc[s] = "channel"
    /\ IF ok
       THEN /\ channels' = channels \cup
                    {[id |-> nextChannelId, guild_id |-> tguild[s], number |-> tnum[s]]}
            /\ nextChannelId' = nextChannelId + 1
            /\ tchan' = [tchan EXCEPT ![s] = nextChannelId]
            /\ tpc' = [tpc EXCEPT ![s] = "insert"]
            /\ UNCHANGED <<tguild, towner, tnum>>
       ELSE /\ tpc' = [tpc EXCEPT ![s] = "idle"]
            /\ tguild' = [tguild EXCEPT ![s] = 0]
            /\ towner' = [towner EXCEPT ![s] = 0]
            /\ tnum' = [tnum EXCEPT ![s] = 0]
            /\ UNCHANGED <<channels, nextChannelId, tchan>>
    /\ UNCHANGED <<tickets, tlock>>

\* create_ticket_channel from _get_assignee_candidate on: the row is
\* inserted, the control message posted and the creation logged.  ok: the
\* database accepts the row; when it raises, on_submit reports the failure
\* and nothing removes the channel
TicketInsert(s, ok) ==
    /\ tpc[s] = "insert"
    /\ tickets' = IF ok THEN create_ticket(tguild[s], tchan[s], towner[s], tnum[s])
                  ELSE tickets
    /\ tpc' = [tpc EXCEPT ![s] = "idle"]
    /\ tguild' = [tguild EXCEPT ![s] = 0]
    /\ towner' = [towner EXCEPT ![s] = 0]
    /\ tnum' = [tnum EXCEPT ![s] = 0]
    /\ tchan' = [tchan EXCEPT ![s] = 0]
    /\ UNCHANGED <<channels, nextChannelId, tlock>>

\* TicketManager.close_ticket_by_owner when no other close of the ticket is
\* in progress: the row is closed without transcript and the channel deleted
TicketClose(t) ==
    /\ t \in tickets
    /\ t.status = "open"
    /\ tickets' = close_ticket(t.id, NULL)
    /\ channels' = {c \in channels : c.id # t.channel_id}
    /\ UNCHANGED <<nextChannelId, tlock, tpc, tguild, towner, tnum, tchan>>

\* ------------------------------------------------------------------------
\* The roster of the administration (src/src/utils/admin_list_manager.py)
\* ------------------------------------------------------------------------

\* roles read of a member, and roster messages sent
MaxRoles == 2
MaxMessages == 3

Members == {1, 2}

\* config.ADMIN_ROLE_CATEGORIES and config.CATEGORY_ROLE_MAPPINGS
ADMIN_ROLE_CATEGORIES == <<"Senior", "Junior">>

CATEGORY_ROLE_MAPPINGS(category_name) ==
    CASE category_name = "Senior" -> <<"Owner", "Admin">>
      [] category_name = "Junior" -> <<"Moder", "Helper", "Trainee", "VIP", "Curator">>
      [] OTHER -> <<>>

\* guild.roles: "Booster" is in no category, "Curator" is configured and is
\* not a role of the guild
GuildRoles ==
    { [id |-> 1, name |-> "Owner"],  [id |-> 2, name |-> "Admin"],
      [id |-> 3, name |-> "Moder"],  [id |-> 4, name |-> "Helper"],
      [id |-> 5, name |-> "Trainee"], [id |-> 10, name |-> "VIP"],
      [id |-> 6, name |-> "Booster"] }

RoleIds == {r.id : r \in GuildRoles}

\* config.ROLE_MAPPINGS: group -> role id ("Trainee" has no group)
ROLE_MAPPINGS ==
    { <<"owner", 1>>, <<"admin", 2>>, <<"moder", 3>>, <<"helper", 4>>, <<"vip", 10>> }

LowestPriority == 999999

\* get_role_group_name
get_role_group_name(role_id) ==
    IF \E m \in ROLE_MAPPINGS : m[2] = role_id
    THEN (CHOOSE m \in ROLE_MAPPINGS : m[2] = role_id)[1]
    ELSE None

\* GROUP_HIERARCHY.index(group), counted from 0
RECURSIVE IndexIn(_, _, _)
IndexIn(x, q, k) ==
    IF k > Len(q) THEN LowestPriority
    ELSE IF q[k] = x THEN k - 1
    ELSE IndexIn(x, q, k + 1)

\* get_role_priority
get_role_priority(role_id) ==
    LET group_name == get_role_group_name(role_id)
    IN  IF group_name = None THEN LowestPriority
        ELSE IndexIn(Lower(group_name), GROUP_HIERARCHY, 1)

\* discord.utils.get(guild.roles, name=role_name): the role id, 0 for None
RoleByName(role_name) ==
    IF \E r \in GuildRoles : r.name = role_name
    THEN (CHOOSE r \in GuildRoles : r.name = role_name).id
    ELSE 0

\* the (category, role name) pairs of the configuration
Buckets ==
    UNION { {<<ADMIN_ROLE_CATEGORIES[c], CATEGORY_ROLE_MAPPINGS(ADMIN_ROLE_CATEGORIES[c])[k]>> :
                k \in 1..Len(CATEGORY_ROLE_MAPPINGS(ADMIN_ROLE_CATEGORIES[c]))} :
            c \in 1..Len(ADMIN_ROLE_CATEGORIES) }

NoBucket == <<"", "">>

\* get_admin_members_by_category, role_to_category: the pair of a role id,
\* NoBucket for a role of no category (no role name is configured twice)
role_to_category(role_id) ==
    IF \E b \in Buckets : RoleByName(b[2]) = role_id
    THEN CHOOSE b \in Buckets : RoleByName(b[2]) = role_id
    ELSE NoBucket

NoBest == [priority |-> LowestPriority, bucket |-> NoBucket]

\* the comparison as it would be if every configured role replaced the best
HigherPriority_Any(priority, member_best_priority) == TRUE

\* get_admin_members_by_category: "if priority < member_best_priority"
HigherPriority(priority, member_best_priority) == priority < member_best_priority

\* get_admin_members_by_category, the loop over member.roles
RECURSIVE BestOf(_, _)
BestOf(member_roles, best) ==
    IF member_roles = <<>> THEN best
    ELSE LET role_id == Head(member_roles)
             priority == get_role_priority(role_id)
         IN  IF /\ role_to_category(role_id) # NoBucket
                /\ HigherPriority(priority, best.priority)
             THEN BestOf(Tail(member_roles),
                         [priority |-> priority, bucket |-> role_to_category(role_id)])
             ELSE BestOf(Tail(member_roles), best)

\* get_admin_members_by_category: per (category, role name) the members
\* whose best role it is
get_admin_members_by_category(guild_members) ==
    [b \in Buckets |-> {m \in DOMAIN guild_members : BestOf(guild_members[m], NoBest).bucket = b}]

\* member.roles as the code can read them: role ids, none twice
RoleSeqs ==
    {q \in UNION {[1..n -> RoleIds] : n \in 0..MaxRoles} :
        \A i, j \in DOMAIN q : q[i] = q[j] => i = j}

NoRoles == [m \in Members |-> <<>>]

NoRoster == [computed |-> FALSE, buckets |-> [b \in Buckets |-> {}]]

\* CHANNELS['ADMIN_LIST_CHANNEL'], and the text channels of the guild
ADMIN_LIST_CHANNEL == 1

TextChannels == {1, 2}

\* get_admin_list_message gives None
NoRecord == [channel_id |-> 0, message_id |-> 0]

\* a row of admin_list_messages left by an earlier run that published into
\* another channel
StoredRecord == [channel_id |-> 2, message_id |-> 1]

NoCallYet == [n |-> 0, op |-> "none", msg |-> 0, done |-> FALSE, fetch |-> "none", sendok |-> FALSE]

\* AdminListManager.__init__, with the guild and the table as they are
RosterInitWith(guild_members, message_info) ==
    /\ members = guild_members
    /\ roster = NoRoster
    /\ record = message_info
    /\ rmessages = IF message_info = NoRecord THEN {}
                   ELSE {[id |-> message_info.message_id,
                          channel_id |-> message_info.channel_id, fresh |-> FALSE]}
    /\ nextMessageId = IF message_info = NoRecord THEN 1 ELSE message_info.message_id + 1
    /\ rchannels = TextChannels
    /\ rout = NoCallYet

RosterInit == RosterInitWith(NoRoles, NoRecord)

\* get_admin_members_by_category(guild)
RosterCompute ==
    /\ ~roster.computed
    /\ roster' = [computed |-> TRUE, buckets |-> get_admin_members_by_category(members)]
    /\ UNCHANGED <<members, record, rmessages, nextMessageId, rchannels, rout>>

Called(op, msg, done, fetch, sendok) ==
    [n |-> 1 - rout.n, op |-> op, msg |-> msg, done |-> done, fetch |-> fetch, sendok |-> sendok]

\* publish from "admin_categories = ..." on: the roster is computed and sent
\* into the channel, and the row is written; an exception of channel.send
\* is caught and None returned
SendRoster(op, channel_id, fetch, sendok) ==
    /\ roster' = [computed |-> TRUE, buckets |-> get_admin_members_by_category(members)]
    /\ IF sendok
       THEN /\ rmessages' = rmessages \cup
                    {[id |-> nextMessageId, channel_id |-> channel_id, fresh |-> TRUE]}
            /\ nextMessageId' = nextMessageId + 1
            /\ record' = [channel_id |-> channel_id, message_id |-> nextMessageId]
            /\ rout' = Called(op, nextMessageId, TRUE, fetch, sendok)
       ELSE /\ rout' = Called(op, 0, FALSE, fetch, sendok)
            /\ UNCHANGED <<rmessages, nextMessageId, record>>

\* AdminListManager.publish(guild): into the configured channel
Publish(sendok) ==
    /\ nextMessageId <= MaxMessages
    /\ IF ADMIN_LIST_CHANNEL \notin rchannels
       THEN /\ rout' = Called("publish", 0, FALSE, "none", sendok)
            /\ UNCHANGED <<roster, record, rmessages, nextMessageId>>
       ELSE SendRoster("publish", ADMIN_LIST_CHANNEL, "none", sendok)
    /\ UNCHANGED <<members, rchannels>>

MessageExists(message_info) ==
    \E m \in rmessages : m.id = message_info.message_id /\ m.channel_id = message_info.channel_id

\* delete_admin_list_message as it would be if the row stayed
delete_admin_list_message_Kept(message_info) == message_info

\* Database.delete_admin_list_message(guild_id): the row of the guild is gone
delete_admin_list_message(message_info) == NoRecord

\* AdminListManager.update(guild).  fetch: channel.fetch_message is allowed
\* ("ok") or raises Forbidden; editok: message.edit succeeds, or raises and
\* "except Exception" returns False
Update(fetch, editok) ==
    /\ IF record = NoRecord
       THEN /\ rout' = Called("update", 0, FALSE, fetch, editok)
            /\ UNCHANGED <<roster, record, rmessages>>
       ELSE IF record.channel_id \notin rchannels
       THEN /\ record' = delete_admin_list_message(record)
            /\ rout' = Called("update", 0, FALSE, fetch, editok)
            /\ UNCHANGED <<roster, rmessages>>
       ELSE IF fetch = "forbidden"
       THEN /\ rout' = Called("update", 0, FALSE, fetch, editok)
            /\ UNCHANGED <<roster, record, rmessages>>
       ELSE IF ~MessageExists(record)
       THEN /\ record' = delete_admin_list_message(record)
            /\ rout' = Called("update", 0, FALSE, fetch, editok)
            /\ UNCHANGED <<roster, rmessages>>
       ELSE /\ roster' = [computed |-> TRUE,
                          buckets |-> get_admin_members_by_category(members)]
            /\ IF editok
               THEN /\ rmessages' = {IF m.id = record.message_id
                                     THEN [m EXCEPT !.fresh = TRUE] ELSE m : m \in rmessages}
                    /\ rout' = Called("update", record.message_id, TRUE, fetch, editok)
               ELSE /\ rmessages' = rmessages
                    /\ rout' = Called("update", 0, FALSE, fetch, editok)
            /\ UNCHANGED record
    /\ UNCHANGED <<members, nextMessageId, rchannels>>

\* restore as it would be if it republished into the configured channel
RestoreChannel_Configured(channel_id) == ADMIN_LIST_CHANNEL

\* restore: "return await self.publish(guild, channel)", the channel of the row
RestoreChannel(channel_id) == channel_id

\* AdminListManager.restore(guild)
Restore(fetch, sendok) ==
    /\ nextMessageId <= MaxMessages
    /\ IF record = NoRecord
       THEN /\ rout' = Called("restore", 0, FALSE, fetch, sendok)
            /\ UNCHANGED <<roster, record, rmessages, nextMessageId>>
       ELSE IF record.channel_id \notin rchannels
       THEN /\ rout' = Called("restore", 0, FALSE, fetch, sendok)
            /\ UNCHANGED <<roster, record, rmessages, nextMessageId>>
       ELSE IF fetch = "forbidden"
       THEN /\ rout' = Called("restore", 0, FALSE, fetch, sendok)
            /\ UNCHANGED <<roster, record, rmessages, nextMessageId>>
       ELSE IF MessageExists(record)
       THEN /\ rout' = Called("restore", record.message_id, TRUE, fetch, sendok)
            /\ UNCHANGED <<roster, record, rmessages, nextMessageId>>
       ELSE SendRoster("restore", RestoreChannel(record.channel_id), fetch, sendok)
    /\ UNCHANGED <<members, rchannels>>

\* somebody deletes a roster message
DeleteMessage(m) ==
    /\ m \in rmessages
    /\ rmessages' = rmessages \ {m}
    /\ UNCHANGED <<members, roster, record, nextMessageId, rchannels, rout>>

\* somebody deletes a text channel, and its messages with it
DeleteChannel(c) ==
    /\ c \in rchannels
    /\ rchannels' = rchannels \ {c}
    /\ rmessages' = {m \in rmessages : m.channel_id # c}
    /\ UNCHANGED <<members, roster, record, nextMessageId, rout>>

\* the roles of the members change: what the messages show is out of date
RosterChanges ==
    /\ \E m \in rmessages : m.fresh
    /\ rmessages' = {[m EXCEPT !.fresh = FALSE] : m \in rmessages}
    /\ UNCHANGED <<members, roster, record, nextMessageId, rchannels, rout>>

\* ------------------------------------------------------------------------
\* The addprivilege command (src/src/commands/privilege.py)
\* ------------------------------------------------------------------------

\* invocations of addprivilege that get as far as the remote console
MaxGrants == 2

\* the length the pattern asks for
SteamIdLength == 17

\* the characters of an identifier: "7" an ASCII digit, "d" a decimal digit
\* outside ASCII, "a" a letter, " " a blank, "\n" a line feed

\* what \d matches in a str pattern: any Unicode decimal digit
IsDigit(c) == c \in {"7", "d"}

Digits(n) == [i \in 1..n |-> "7"]

\* the identifiers given to the command: around the length asked for, with
\* something before or after, or another first character
SteamIds ==
    {Digits(n) \o post :
        n \in (SteamIdLength - 1)..(SteamIdLength + 1),
        post \in {<<>>, <<"\n">>, <<"a">>, <<"\n", "\n">>}}
    \cup {<<c>> \o Digits(SteamIdLength - 1) : c \in {"a", "d", " "}}
    \cup {<<" ">> \o Digits(SteamIdLength)}

\* is_valid_steamid64: re.match(r'^\d{17}$', steamid).  Without re.MULTILINE
\* "$" matches at the end of the string and before a line feed that ends it
is_valid_steamid64(steamid) ==
    /\ \/ Len(steamid) = SteamIdLength
       \/ Len(steamid) = SteamIdLength + 1 /\ steamid[SteamIdLength + 1] = "\n"
    /\ \A i \in 1..SteamIdLength : IsDigit(steamid[i])

NoGroup == [name |-> "", expires_at_utc |-> NULL, permanent |-> FALSE]

\* select_highest_group, the filter by GROUP_NAME_DATABASE
Recognized(g) == InSeq(Lower(g.name), GROUP_NAME_DATABASE)

\* select_highest_group, the loop over valid_groups as it would be with
\* "priority <= highest_priority"
RECURSIVE HighestOf_LastOnTie(_, _, _, _)
HighestOf_LastOnTie(valid_groups, highest_group, highest_priority, hierarchy) ==
    IF valid_groups = <<>> THEN highest_group
    ELSE LET group == Head(valid_groups)
             priority == IndexIn(Lower(group.name), hierarchy, 1)
         IN  IF priority <= highest_priority
             THEN HighestOf_LastOnTie(Tail(valid_groups), group, priority, hierarchy)
             ELSE HighestOf_LastOnTie(Tail(valid_groups), highest_group, highest_priority, hierarchy)

\* select_highest_group, the loop over valid_groups: GROUP_HIERARCHY.index
\* looks for the lower-cased name among the entries as they are written; a
\* name it does not find (ValueError) is skipped
RECURSIVE HighestOf(_, _, _, _)
HighestOf(valid_groups, highest_group, highest_priority, hierarchy) ==
    IF valid_groups = <<>> THEN highest_group
    ELSE LET group == Head(valid_groups)
             priority == IndexIn(Lower(group.name), hierarchy, 1)
         IN  IF priority < highest_priority
             THEN HighestOf(Tail(valid_groups), group, priority, hierarchy)
             ELSE HighestOf(Tail(valid_groups), highest_group, highest_priority, hierarchy)

\* select_highest_group under a configuration: database is
\* GROUP_NAME_DATABASE, hierarchy is GROUP_HIERARCHY
SelectHighest(groups, database, hierarchy) ==
    LET Valid(g) == \E k \in 1..Len(database) : Lower(g.name) = Lower(database[k])
        valid_groups == SelectSeq(groups, Valid)
    IN  IF groups = <<>> THEN NoGroup
        ELSE IF valid_groups = <<>> THEN NoGroup
        ELSE HighestOf(valid_groups, NoGroup, Len(hierarchy), hierarchy)

\* select_highest_group as it would be if it took the first parsed group
select_highest_group_First(groups) ==
    IF groups = <<>> THEN NoGroup ELSE Head(groups)

\* select_highest_group under the default configuration: NoGroup for None
select_highest_group(groups) ==
    SelectHighest(groups, GROUP_NAME_DATABASE, GROUP_HIERARCHY)

\* groups given to select_highest_group at most
MaxGroups == 2

\* names of groups in a pinfo answer
GroupNames == {"moderator", "admin", "Admin", "owner", "VIP"}

\* the parsed groups with these names; the expiry tells apart two groups of
\* one name
GroupsOf(names) ==
    [k \in 1..Len(names) |-> [name |-> names[k], expires_at_utc |-> k, permanent |-> FALSE]]

\* the lists of at most n names
RECURSIVE NameSeqs(_)
NameSeqs(n) ==
    IF n = 0 THEN {<<>>}
    ELSE NameSeqs(n - 1) \cup {Append(q, x) : q \in {t \in NameSeqs(n - 1) : Len(t) = n - 1},
                                                x \in GroupNames}

\* values of GROUP_HIERARCHY: the default, the one of three ranks, and ones
\* written with capitals in the configuration file
Hierarchies ==
    { GROUP_HIERARCHY,
      <<"owner", "admin", "moderator">>,
      <<"Owner", "admin", "moderator">>,
      <<"moderator", "Admin">> }

\* values of GROUP_NAME_DATABASE
Databases ==
    { GROUP_NAME_DATABASE,
      <<"Moderator", "ADMIN", "vip">>,
      <<"owner">> }

\* the arguments select_highest_group is studied on
SelectInputs ==
    { [groups |-> GroupsOf(names), database |-> database, hierarchy |-> hierarchy] :
        names \in NameSeqs(MaxGroups), database \in Databases, hierarchy \in Hierarchies }

\* how far from 0, from 65536 and from the default port the base ports lie
PortMargin == 12

\* base ports given to WebRCONClient
BasePorts ==
    (0..PortMargin) \cup ((65536 - PortMargin)..65536)
        \cup ((RCON_PORT - PortMargin)..(RCON_PORT + PortMargin))

\* WebRCONClient.__init__: ports_to_try
PortsOf(port, try_ports) ==
    IF try_ports THEN PortsToTry(port) ELSE <<port>>

\* WebRCONClient(host, port, password, try_ports)
PortsCall ==
    /\ ~pout.done
    /\ pout' = [done |-> TRUE, val |-> PortsOf(pin.port, pin.try_ports)]
    /\ UNCHANGED pin

\* a call of select_highest_group
SelectCall ==
    /\ ~pout.done
    /\ pout' = [done |-> TRUE, val |-> SelectHighest(pin.groups, pin.database, pin.hierarchy)]
    /\ UNCHANGED pin

\* time_utils.utc_to_msk: the same instant on the clock of UTC+3
MskOffset == 3

utc_to_msk(utc_dt) == utc_dt + MskOffset

\* what RCONManager.send_command can give for pinfo: no answer, an empty
\* answer, or lines
GrantResponses ==
    { None,
      <<>>,
      <<Line("noinfo", "", 0)>>,
      <<Line("text", "Unknown command", 0)>>,
      <<Line("until", "VIP", 1)>>,
      <<Line("until", "admin", 0)>>,
      <<Line("until", "VIP", 1), Line("until", "Helper", 1), Line("until", "admin", 2)>>,
      <<Line("bare", "owner", 0)>>,
      <<Line("bare", "vip", 0)>> }

\* Database.create_user: INSERT ... ON DUPLICATE KEY UPDATE steamid
create_user(discord_id, steamid) ==
    {u \in users : u.discord_id # discord_id}
        \cup {[discord_id |-> discord_id, steamid |-> steamid]}

\* AUTO_INCREMENT of table privileges
NextPrivilegeId ==
    IF privileges = {} THEN 1 ELSE MaxOf({r.id : r \in privileges}) + 1

\* Database.create_privilege
create_privilege(discord_id, steamid, group_name, expires_at, permanent) ==
    privileges \cup {[id |-> NextPrivilegeId, discord_id |-> discord_id, steamid |-> steamid,
                      group_name |-> group_name, expires_at |-> expires_at,
                      permanent |-> permanent, created_at |-> now]}

\* PrivilegeCommands.__init__, on an empty table users
GrantInit ==
    /\ users = {}
    /\ gpc = "idle"
    /\ gn = 0
    /\ gsteamid = <<>>
    /\ guser = 0
    /\ gresp = None
    /\ gdb = "none"
    /\ gend = "none"

\* addprivilege up to the pinfo command: outside a guild and for an
\* identifier is_valid_steamid64 rejects it answers and returns; otherwise
\* it defers and gives "pinfo <steamid>" to the manager
GrantCall(steamid, user, inGuild) ==
    /\ gpc = "idle"
    /\ gn' = 1 - gn
    /\ gsteamid' = steamid
    /\ guser' = user
    /\ gresp' = None
    /\ gdb' = "none"
    /\ IF ~inGuild
       THEN /\ gend' = "no guild"
            /\ UNCHANGED <<gpc, rconLog>>
       ELSE IF ~is_valid_steamid64(steamid)
       THEN /\ gend' = "invalid"
            /\ UNCHANGED <<gpc, rconLog>>
       ELSE /\ gend' = "none"
            /\ gpc' = "pinfo"
            /\ rconLog' = Append(rconLog, <<"pinfo", steamid, "">>)
    /\ UNCHANGED <<users, now, privileges, warnings, nextWarnId, roles, serverGroups,
                   wpc, wuser, wcount, wstarted, wpriv, wresp, wpinfo, fend>>

\* addprivilege from the pinfo response on.  cancelled: send_command raised
\* CancelledError, which passes "except Exception".  dbfail: the statement
\* the database refuses ("user", "privilege") or "none".  addroles: how
\* Member.add_roles ends ("ok", "forbidden" for discord.Forbidden, "error"
\* for any other exception, which is logged and the run goes on)
GrantAnswer(response, cancelled, dbfail, addroles) ==
    /\ gpc = "pinfo"
    /\ gpc' = "idle"
    /\ gresp' = response
    /\ LET pinfo_data == parse_pinfo_response(response)
           highest_group == select_highest_group(pinfo_data.groups)
           expires_at_msk == IF highest_group.expires_at_utc # NULL /\ ~highest_group.permanent
                             THEN utc_to_msk(highest_group.expires_at_utc)
                             ELSE NULL
           role_id == RoleMapping(Lower(highest_group.name))
       IN
       IF cancelled
       THEN /\ gend' = "CancelledError"
            /\ UNCHANGED <<users, privileges, roles, gdb>>
       ELSE IF response = None \/ response = <<>>
       THEN /\ gend' = "no answer"
            /\ UNCHANGED <<users, privileges, roles, gdb>>
       ELSE IF ~pinfo_data.has_privileges
       THEN /\ gend' = "no privileges"
            /\ UNCHANGED <<users, privileges, roles, gdb>>
       ELSE IF highest_group = NoGroup
       THEN /\ gend' = "no group"
            /\ UNCHANGED <<users, privileges, roles, gdb>>
       ELSE /\ gdb' = dbfail
            /\ IF dbfail = "user"
               THEN /\ gend' = "db error"
                    /\ UNCHANGED <<users, privileges, roles>>
               ELSE IF dbfail = "privilege"
               THEN /\ gend' = "db error"
                    /\ users' = create_user(guser, gsteamid)
                    /\ UNCHANGED <<privileges, roles>>
               ELSE /\ users' = create_user(guser, gsteamid)
                    /\ privileges' = create_privilege(guser, gsteamid, highest_group.name,
                                                      expires_at_msk, highest_group.permanent)
                    /\ IF role_id # 0 /\ addroles = "forbidden"
                       THEN /\ gend' = "forbidden"
                            /\ UNCHANGED roles
                       ELSE /\ gend' = "granted"
                            /\ roles' = IF role_id # 0 /\ addroles = "ok"
                                        THEN roles \cup {<<guser, role_id>>}
                                        ELSE roles
    /\ UNCHANGED <<gn, gsteamid, guser>>
    /\ UNCHANGED <<now, warnings, nextWarnId, serverGroups, rconLog,
                   wpc, wuser, wcount, wstarted, wpriv, wresp, wpinfo, fend>>

\* no function is under study
PureInit ==
    /\ pin = <<>>
    /\ pout = [done |-> FALSE, val |-> <<>>]

\* ------------------------------------------------------------------------
\* The log endpoint (src/src/api/log_receiver.py)
\* ------------------------------------------------------------------------

\* events the process log holds at most
MaxEvents == 2

\* LogReceiver.auth_token
AuthToken == "secret"

\* the value of the Auth header: None when the request has none
AuthHeaders == {None, AuthToken, "guess", ""}

\* handle_log: required_fields
required_fields == <<"source", "category", "message", "timestamp">>

\* The body of a request.  kind "malformed": text json.loads rejects;
\* "object": has the keys has; "array": has the strings has as elements;
\* "string": has the strings has as substrings; "number", "null": a JSON
\* number, null.  strings: the values of the fields are strings
Bodies23 ==
    [kind : {"object"}, has : SUBSET {"source", "category", "message", "timestamp"},
     strings : {TRUE}]
    \cup {[kind |-> "object", has |-> {"source", "category", "message", "timestamp"},
           strings |-> FALSE]}
    \cup [kind : {"array", "string"},
          has : {{}, {"source"}, {"source", "category", "message", "timestamp"}},
          strings : {TRUE}]
    \cup [kind : {"malformed", "number", "null"}, has : {{}}, strings : {TRUE}]

NoRequest == [method |-> "", path |-> "", auth |-> None, body |-> [kind |-> "null", has |-> {}, strings |-> TRUE]]

\* LogReceiver.__init__
LogInit ==
    /\ process_log = <<>>
    /\ channel_log = <<>>
    /\ lreq = NoRequest
    /\ lresp = 0
    /\ ln = 0

\* "field not in data": "TypeError" where data supports no membership test
NotIn(field, data) ==
    IF data.kind \in {"number", "null"} THEN "TypeError"
    ELSE IF field \in data.has THEN "False" ELSE "True"

\* handle_log: the outcome of computing missing_fields
MissingFields(data) ==
    IF \E k \in 1..4 : NotIn(required_fields[k], data) = "TypeError" THEN "TypeError"
    ELSE IF \E k \in 1..4 : NotIn(required_fields[k], data) = "True" THEN "missing"
    ELSE "none"

\* handle_log: auth_header != self.auth_token
Authorized(auth_header) == auth_header = AuthToken

\* send_to_discord: whether the event reaches the channel.  configured:
\* log_channel_id is set; ready: the bot is ready and a guild has the
\* channel; sendok: channel.send does not raise
Relays(data, configured, ready, sendok) ==
    configured /\ ready /\ data.strings /\ sendok

\* the router: add_post('/log', handle_log); it answers other requests
\* itself, 405 for another method on /log and 404 for another path
\* (/health, a GET route, is left out)
LogRequest(method, path, auth, body, configured, ready, sendok) ==
    /\ ln' = 1 - ln
    /\ lreq' = [method |-> method, path |-> path, auth |-> auth, body |-> body]
    /\ IF path # "/log"
       THEN lresp' = 404 /\ UNCHANGED <<process_log, channel_log>>
       ELSE IF method # "POST"
       THEN lresp' = 405 /\ UNCHANGED <<process_log, channel_log>>
       ELSE IF ~Authorized(auth)
       THEN lresp' = 401 /\ UNCHANGED <<process_log, channel_log>>
       ELSE IF body.kind = "malformed"
       THEN lresp' = 400 /\ UNCHANGED <<process_log, channel_log>>
       ELSE IF MissingFields(body) = "TypeError"
       THEN lresp' = 500 /\ UNCHANGED <<process_log, channel_log>>
       ELSE IF MissingFields(body) = "missing"
       THEN lresp' = 400 /\ UNCHANGED <<process_log, channel_log>>
       ELSE IF body.kind # "object"
       THEN \* data.get: AttributeError
            lresp' = 500 /\ UNCHANGED <<process_log, channel_log>>
       ELSE /\ lresp' = 200
            /\ process_log' = Append(process_log, ln')
            /\ channel_log' = IF Relays(body, configured, ready, sendok)
                               THEN Append(channel_log, ln')
                               ELSE channel_log

\* ------------------------------------------------------------------------
\* Start and shutdown of the bot (src/src/bot.py)
\* ------------------------------------------------------------------------

\* the module globals db, rcon_manager, scheduler before on_ready
BotInit ==
    /\ bready = "none"
    /\ cogs = {}
    /\ bdb = "none"
    /\ brcon = "none"
    /\ bsched = "none"
    /\ bcleanup = "none"

\* the setup functions on_ready awaits, in its order
CommandSetups == <<"admin", "privilege", "warn">>

\* bot.add_cog for each setup of the sequence, up to the first that raises
\* (a cog of that name is loaded already): <<cogs, raised>>
RECURSIVE AddCogs(_, _)
AddCogs(setups, loaded) ==
    IF setups = <<>> THEN <<loaded, FALSE>>
    ELSE IF Head(setups) \in loaded THEN <<loaded, TRUE>>
    ELSE AddCogs(Tail(setups), loaded \cup {Head(setups)})

\* on_ready.  dbok: db.connect succeeds; rconok: what rcon_manager.connect
\* does ("ok", "failed", or "raised" for the CancelledError of a probe cut
\* off); the handler logs and re-raises whatever it catches.  discord.py
\* calls it again after every new session
OnReady(dbok, rconok) ==
    /\ bcleanup = "none"
    /\ LET added == AddCogs(CommandSetups, cogs) IN
       IF ~dbok
       THEN /\ bdb' = "failed"
            /\ bready' = "raised"
            /\ UNCHANGED <<cogs, brcon, bsched, running, spc>>
       ELSE IF rconok = "raised"
       THEN /\ bdb' = "open"
            /\ brcon' = "open"
            /\ bready' = "raised"
            /\ UNCHANGED <<cogs, bsched, running, spc>>
       ELSE IF added[2]
       THEN /\ bdb' = "open"
            /\ brcon' = "open"
            /\ cogs' = added[1]
            /\ bready' = "raised"
            /\ UNCHANGED <<bsched, running, spc>>
       ELSE /\ bdb' = "open"
            /\ brcon' = "open"
            /\ cogs' = added[1]
            /\ bsched' = "started"
            /\ running' = TRUE
            /\ spc' = "check"
            /\ bready' = "done"
    /\ UNCHANGED <<bcleanup, scur, sleft, sattempt, sabsent, snotices, sdone, sfailed, rcon>>
    /\ UNCHANGED warnVars

\* cleanup: scheduler.stop, rcon_manager.close and db.close one after the
\* other, each for a global that is set; nothing catches what one of them
\* raises.  main calls it again when it raised RuntimeError
Cleanup(schedfail, rconfail, dbfail) ==
    /\ bcleanup # "done"
    /\ IF bsched # "none" /\ schedfail
       THEN /\ bcleanup' = "scheduler"
            /\ UNCHANGED <<bsched, running, spc, brcon, bdb>>
       ELSE /\ bsched' = IF bsched = "none" THEN "none" ELSE "stopped"
            /\ running' = FALSE
            /\ spc' = IF bsched = "none" THEN spc ELSE "dead"
            /\ IF brcon # "none" /\ rconfail
               THEN /\ bcleanup' = "rcon"
                    /\ UNCHANGED <<brcon, bdb>>
               ELSE /\ brcon' = IF brcon = "none" THEN "none" ELSE "closed"
                    /\ IF bdb \in {"open", "closed"} /\ dbfail
                       THEN /\ bcleanup' = "db"
                            /\ bdb' = bdb
                       ELSE /\ bcleanup' = "done"
                            /\ bdb' = IF bdb = "open" THEN "closed" ELSE bdb
    /\ UNCHANGED <<bready, cogs, scur, sleft, sattempt, sabsent, snotices, sdone, sfailed, rcon>>
    /\ UNCHANGED warnVars

\* ------------------------------------------------------------------------
\* RCONManager with several callers (src/src/rcon/rcon_manager.py): the
\* WebRCONClient objects it creates, each "new" (no socket), "open" (socket
\* and reader task) or "closed"
\* ------------------------------------------------------------------------

\* WebRCONClient objects one manager creates
MaxClients == 3

\* RCONManager.__init__
PoolInit ==
    /\ clients = <<>>
    /\ cref = 0
    /\ cbs = <<>>
    /\ kpc = [p \in Procs |-> "idle"]
    /\ kobj = [p \in Procs |-> 0]
    /\ kout = [p \in Procs |-> "none"]

\* WebRCONClient.close on a client of this state
Closed(c) == IF c = "open" THEN "closed" ELSE c

\* connect: "self.client = None; self.client = WebRCONClient(...)" and the
\* call of self.client.connect, which suspends
NewClient(p) ==
    /\ Len(clients) < MaxClients
    /\ clients' = Append(clients, "new")
    /\ cbs' = Append(cbs, FALSE)
    /\ cref' = Len(clients) + 1
    /\ kobj' = [kobj EXCEPT ![p] = Len(clients) + 1]
    /\ kpc' = [kpc EXCEPT ![p] = "connecting"]
    /\ kout' = kout

\* RCONManager.connect up to its first suspension: closing a client with a
\* socket suspends; a client without one (None, or one that another caller
\* is connecting) lets connect go straight on to the new client
BeginManagerConnect(p) ==
    IF cref # 0 /\ clients[cref] = "open"
    THEN /\ clients' = [clients EXCEPT ![cref] = Closed(clients[cref])]
         /\ kpc' = [kpc EXCEPT ![p] = "closing"]
         /\ UNCHANGED <<cref, cbs, kobj, kout>>
    ELSE NewClient(p)

\* RCONManager.connect called by p
ManagerConnect(p) ==
    /\ kpc[p] = "idle"
    /\ BeginManagerConnect(p)

\* connect after "await self.client.close()"
AfterClose(p) ==
    /\ kpc[p] = "closing"
    /\ NewClient(p)

\* connect after "await self.client.connect(...)": the client p created is
\* connected or not; self.client is read again for connected_port (None has
\* no such attribute), or set to None
AfterConnect(p, success) ==
    /\ kpc[p] = "connecting"
    /\ kpc' = [kpc EXCEPT ![p] = "idle"]
    /\ clients' = [clients EXCEPT ![kobj[p]] = IF success THEN "open" ELSE "closed"]
    /\ cref' = IF success THEN cref ELSE 0
    /\ kout' = [kout EXCEPT ![p] = IF ~success THEN "false"
                                   ELSE IF cref = 0 THEN "AttributeError" ELSE "true"]
    /\ UNCHANGED <<cbs, kobj>>

\* RCONManager.send_command called by p: without a client or without its
\* socket it connects; a command that got an answer is returned; one that
\* got none makes it connect again
ManagerSend(p, answered) ==
    /\ kpc[p] = "idle"
    /\ IF cref # 0 /\ clients[cref] = "open" /\ answered
       THEN /\ kout' = [kout EXCEPT ![p] = "answer"]
            /\ UNCHANGED <<clients, cref, cbs, kpc, kobj>>
       ELSE BeginManagerConnect(p)

\* RCONManager.set_console_callback: "if self.client:
\* self.client.set_console_callback(callback)"
ManagerSetCallback ==
    /\ cref # 0
    /\ ~cbs[cref]
    /\ cbs' = [cbs EXCEPT ![cref] = TRUE]
    /\ UNCHANGED <<clients, cref, kpc, kobj, kout>>

\* ------------------------------------------------------------------------
\* Closing a ticket (src/src/commands/tickets.py)
\* ------------------------------------------------------------------------

\* who closes: a staff member through TicketView.close_select, the owner through
\* OwnerConfirmCloseView
Closers == {"staff", "owner"}

\* what the message sent to the log channel gives as attachment url; NULL
\* without log channel, without messages or without attachment
TranscriptUrls == {NULL, 1}

\* no close is in progress
CloseInit ==
    /\ cpc = [k \in Closers |-> "idle"]
    /\ cticket = [k \in Closers |-> 0]
    /\ curl = [k \in Closers |-> NULL]

HasChannel(t) == \E c \in channels : c.id = t.channel_id

\* TicketView.close_select up to manager.close_ticket: the select menu is
\* in the ticket channel, the staff member is checked, the response deferred
StaffSelect(t) ==
    /\ cpc["staff"] = "idle"
    /\ t \in tickets
    /\ HasChannel(t)
    /\ cpc' = [cpc EXCEPT !["staff"] = "selected"]
    /\ cticket' = [cticket EXCEPT !["staff"] = t.id]
    /\ UNCHANGED <<curl, tickets, channels>>

\* TicketManager.close_ticket up to db.close_ticket: the row is read (its
\* status is not looked at); without the channel the row is closed at once
\* with the default transcript_url; otherwise the transcript is built and
\* sent to the log channel
StaffTranscript(transcript_url) ==
    /\ cpc["staff"] = "selected"
    /\ LET ticket == CHOOSE t \in tickets : t.id = cticket["staff"]
       IN  IF ~HasChannel(ticket)
           THEN /\ tickets' = close_ticket(ticket.id, NULL)
                /\ cpc' = [cpc EXCEPT !["staff"] = "idle"]
                /\ cticket' = [cticket EXCEPT !["staff"] = 0]
                /\ UNCHANGED curl
           ELSE /\ curl' = [curl EXCEPT !["staff"] = transcript_url]
                /\ cpc' = [cpc EXCEPT !["staff"] = "built"]
                /\ UNCHANGED <<tickets, cticket>>
    /\ UNCHANGED channels

\* TicketManager.close_ticket: db.close_ticket(ticket_id, transcript_url)
StaffStore ==
    /\ cpc["staff"] = "built"
    /\ tickets' = close_ticket(cticket["staff"], curl["staff"])
    /\ cpc' = [cpc EXCEPT !["staff"] = "stored"]
    /\ UNCHANGED <<cticket, curl, channels>>

\* TicketManager.close_ticket after the sleep: channel.delete
StaffDelete ==
    /\ cpc["staff"] = "stored"
    /\ channels' = {c \in channels :
                        \A t \in tickets : t.id = cticket["staff"] => c.id # t.channel_id}
    /\ cpc' = [cpc EXCEPT !["staff"] = "idle"]
    /\ cticket' = [cticket EXCEPT !["staff"] = 0]
    /\ curl' = [curl EXCEPT !["staff"] = NULL]
    /\ UNCHANGED tickets

\* OwnerConfirmCloseView.confirm and close_ticket_by_owner up to
\* db.close_ticket(ticket_id, None): the button is in the ticket channel,
\* the row is read for its owner only
OwnerStore(t) ==
    /\ cpc["owner"] = "idle"
    /\ t \in tickets
    /\ HasChannel(t)
    /\ tickets' = close_ticket(t.id, NULL)
    /\ cpc' = [cpc EXCEPT !["owner"] = "stored"]
    /\ cticket' = [cticket EXCEPT !["owner"] = t.id]
    /\ UNCHANGED <<curl, channels>>

\* close_ticket_by_owner after the sleep: channel.delete
OwnerDelete ==
    /\ cpc["owner"] = "stored"
    /\ channels' = {c \in channels :
                        \A t \in tickets : t.id = cticket["owner"] => c.id # t.channel_id}
    /\ cpc' = [cpc EXCEPT !["owner"] = "idle"]
    /\ cticket' = [cticket EXCEPT !["owner"] = 0]
    /\ UNCHANGED <<tickets, curl>>

MoreInit == PureInit /\ LogInit /\ BotInit /\ PoolInit /\ CloseInit

LaterInit == SchedInit /\ TicketInit /\ RosterInit /\ GrantInit /\ MoreInit

\* ------------------------------------------------------------------------
\* Specification of the warning command with concurrent invocations
\* ------------------------------------------------------------------------
InitWarn == ClientInit /\ MgrInit /\ WarnInit /\ LaterInit

NextWarn ==
    \/ Tick /\ UNCHANGED <<clientVars, mgrVars, laterVars>>
    \/ \E w \in Cmds, u \in Users, g \in BOOLEAN :
            WarnCreate(w, u, g) /\ UNCHANGED <<clientVars, mgrVars, laterVars>>
    \/ \E w \in Cmds : WarnCount(w) /\ UNCHANGED <<clientVars, mgrVars, laterVars>>
    \/ \E w \in Cmds : WarnNotify(w) /\ UNCHANGED <<clientVars, mgrVars, laterVars>>
    \/ \E w \in Cmds : FlowLookup(w) /\ UNCHANGED <<clientVars, mgrVars, laterVars>>
    \/ \E w \in Cmds, response \in RemovegroupResponses, removed, answered \in BOOLEAN :
            \E cancelled \in (IF response = None THEN BOOLEAN ELSE {FALSE}) :
                FlowRemovegroup(w, response, cancelled, removed, answered)
                /\ UNCHANGED <<clientVars, mgrVars, laterVars>>

SpecWarn == InitWarn /\ [][NextWarn]_vars

\* ------------------------------------------------------------------------
\* Specification of one WebRCON client with concurrent callers
\* ------------------------------------------------------------------------
InitClient == ClientInit /\ MgrInit /\ WarnInitWith({}) /\ LaterInit

NextClient ==
    \/ ConnectSocket /\ UNCHANGED <<mgrVars, warnVars, laterVars>>
    \/ \E p \in Procs : CallSend(p) /\ UNCHANGED <<mgrVars, warnVars, laterVars>>
    \/ \E p \in Procs : Timeout(p) /\ UNCHANGED <<mgrVars, warnVars, laterVars>>
    \/ \E p \in Procs : Resume(p) /\ UNCHANGED <<mgrVars, warnVars, laterVars>>
    \/ \E b \in BOOLEAN : SetConsoleCallback(b) /\ UNCHANGED <<mgrVars, warnVars, laterVars>>
    \/ ListenerStep /\ UNCHANGED <<mgrVars, warnVars, laterVars>>
    \/ ListenerClosed /\ UNCHANGED <<mgrVars, warnVars, laterVars>>
    \/ Close /\ UNCHANGED <<mgrVars, warnVars, laterVars>>
    \/ \E i \in 1..MaxId : ServerReply(i, Body(i)) /\ UNCHANGED <<mgrVars, warnVars, laterVars>>
    \/ \E i \in BroadcastIds, m \in LogLines : ServerBroadcast(i, m) /\ UNCHANGED <<mgrVars, warnVars, laterVars>>
    \/ RemoteClose /\ UNCHANGED <<mgrVars, warnVars, laterVars>>

SpecClient == InitClient /\ [][NextClient]_vars

\* The event loop runs a task that is ready, the timer of wait_for fires and
\* the reader task keeps reading.
FairClient ==
    /\ \A p \in Procs : WF_clientVars(Timeout(p))
    /\ \A p \in Procs : WF_clientVars(Resume(p))
    /\ WF_clientVars(ListenerStep)
    /\ WF_clientVars(ListenerClosed)

\* The steps that bear on whether a call ends: console lines and the
\* registration of the callback touch neither the table nor a Future
NextClientCalls ==
    \/ ConnectSocket /\ UNCHANGED <<mgrVars, warnVars, laterVars>>
    \/ \E p \in Procs : CallSend(p) /\ UNCHANGED <<mgrVars, warnVars, laterVars>>
    \/ \E p \in Procs : Timeout(p) /\ UNCHANGED <<mgrVars, warnVars, laterVars>>
    \/ \E p \in Procs : Resume(p) /\ UNCHANGED <<mgrVars, warnVars, laterVars>>
    \/ ListenerStep /\ UNCHANGED <<mgrVars, warnVars, laterVars>>
    \/ ListenerClosed /\ UNCHANGED <<mgrVars, warnVars, laterVars>>
    \/ Close /\ UNCHANGED <<mgrVars, warnVars, laterVars>>
    \/ \E i \in 1..MaxId : ServerReply(i, Body(i)) /\ UNCHANGED <<mgrVars, warnVars, laterVars>>
    \/ RemoteClose /\ UNCHANGED <<mgrVars, warnVars, laterVars>>

FairSpecClient == InitClient /\ [][NextClientCalls]_vars /\ FairClient

\* the calls, the reader and the server without console lines
SpecClientCalls == InitClient /\ [][NextClientCalls]_vars

\* the operations of one client in any order: connect attempts on a client
\* that holds a socket or none, start_console_listener,
\* stop_console_listener, close, calls of send_command, and the peer
NextReader ==
    \/ ConnectAttempt /\ UNCHANGED <<mgrVars, warnVars, laterVars>>
    \/ StartConsoleListener /\ UNCHANGED <<mgrVars, warnVars, laterVars>>
    \/ StopConsoleListener /\ UNCHANGED <<mgrVars, warnVars, laterVars>>
    \/ Close /\ UNCHANGED <<mgrVars, warnVars, laterVars>>
    \/ \E p \in Procs : CallSend(p) /\ UNCHANGED <<mgrVars, warnVars, laterVars>>
    \/ \E p \in Procs : Timeout(p) /\ UNCHANGED <<mgrVars, warnVars, laterVars>>
    \/ \E p \in Procs : Resume(p) /\ UNCHANGED <<mgrVars, warnVars, laterVars>>
    \/ ListenerStep /\ UNCHANGED <<mgrVars, warnVars, laterVars>>
    \/ ListenerClosed /\ UNCHANGED <<mgrVars, warnVars, laterVars>>
    \/ \E i \in 1..MaxId : ServerReply(i, Body(i)) /\ UNCHANGED <<mgrVars, warnVars, laterVars>>
    \/ RemoteClose /\ UNCHANGED <<mgrVars, warnVars, laterVars>>

SpecReader == InitClient /\ [][NextReader]_vars

\* ------------------------------------------------------------------------
\* Specification of the RCON manager with one task calling it
\* ------------------------------------------------------------------------
InitManager == ClientInit /\ MgrInit /\ WarnInitWith({}) /\ LaterInit

NextManager ==
    \/ MgrCallConnect /\ UNCHANGED <<warnVars, laterVars>>
    \/ MgrCallSend /\ UNCHANGED <<warnVars, laterVars>>
    \/ \E ok \in BOOLEAN : Dial(ok) /\ UNCHANGED <<warnVars, laterVars>>
    \/ ProbeSend /\ UNCHANGED <<warnVars, laterVars>>
    \/ AfterProbe /\ UNCHANGED <<warnVars, laterVars>>
    \/ MgrClientSend /\ UNCHANGED <<warnVars, laterVars>>
    \/ AfterSend /\ UNCHANGED <<warnVars, laterVars>>
    \/ Timeout(1) /\ UNCHANGED <<mgrVars, warnVars, laterVars>>
    \/ Resume(1) /\ UNCHANGED <<mgrVars, warnVars, laterVars>>
    \/ ListenerStep /\ UNCHANGED <<mgrVars, warnVars, laterVars>>
    \/ ListenerClosed /\ UNCHANGED <<mgrVars, warnVars, laterVars>>
    \/ \E i \in 1..MaxId : \E m \in Bodies(i) : ServerReply(i, m) /\ UNCHANGED <<mgrVars, warnVars, laterVars>>
    \/ RemoteClose /\ UNCHANGED <<mgrVars, warnVars, laterVars>>

SpecManager == InitManager /\ [][NextManager]_vars

\* ------------------------------------------------------------------------
\* Specification of the scheduler: time passes, rows expire, the game server
\* drops groups, the connection comes and goes
\* ------------------------------------------------------------------------
InitSched == ClientInit /\ MgrInit /\ WarnInit /\ LaterInit

\* the variables no step of the scheduler's specification changes
notSched == <<clientVars, mgrVars, ticketVars, rosterVars, grantVars, moreVars>>

NextSched ==
    \/ Tick /\ UNCHANGED <<notSched, laterVars>>
    \/ SchedStart /\ UNCHANGED notSched
    \/ SchedCheck /\ UNCHANGED notSched
    \/ SchedAttempt /\ UNCHANGED notSched
    \/ \E user \in {"found", "notfound", "error"} : SchedApply(user) /\ UNCHANGED notSched
    \/ \E c \in {"up", "down", "closing"} : RconTurns(c) /\ UNCHANGED notSched
    \/ \E key \in serverGroups : ServerDrops(key) /\ UNCHANGED notSched

SpecSched == InitSched /\ [][NextSched]_vars

\* asyncio runs the scheduler task whenever it can go on: a pass is started
\* after every sleep, an attempt ends, and fetch_user does not fail for ever
FairSched ==
    /\ WF_schedVars(SchedCheck)
    /\ WF_schedVars(SchedAttempt)
    /\ SF_<<schedVars, privileges>>(\E user \in {"found", "notfound"} : SchedApply(user))

FairSpecSched == InitSched /\ [][NextSched]_vars /\ FairSched

\* ------------------------------------------------------------------------
\* Specification of the scheduler on rows of two members, one of whom
\* fetch_user never finds out about: every call for that member raises
\* an error other than NotFound (discord.HTTPException)
\* ------------------------------------------------------------------------

\* expired rows of two different members
RowsOfTwoMembers ==
    { [id |-> 1, discord_id |-> 1, steamid |-> "s1", group_name |-> "VIP",
       expires_at |-> 1, permanent |-> FALSE, created_at |-> 0],
      [id |-> 2, discord_id |-> 2, steamid |-> "s2", group_name |-> "helper",
       expires_at |-> 1, permanent |-> FALSE, created_at |-> 0] }

\* the members for whom bot.fetch_user raises every time
Unfetchable == {1}

\* what bot.fetch_user(discord_id) can do
FetchOutcomes(discord_id) ==
    IF discord_id \in Unfetchable THEN {"error"} ELSE {"found", "notfound"}

\* _process_expired_privilege after a successful verification, fetch_user
\* doing what it does for the member of the row
SchedApplyOf ==
    /\ spc = "apply"
    /\ \E user \in FetchOutcomes(scur.discord_id) : SchedApply(user)

InitSchedRecords ==
    /\ ClientInit /\ MgrInit /\ LaterInit
    /\ \E rows \in SUBSET RowsOfTwoMembers : WarnInitWith(rows)

NextSchedRecords ==
    \/ Tick /\ UNCHANGED <<notSched, laterVars>>
    \/ SchedStart /\ UNCHANGED notSched
    \/ SchedCheck /\ UNCHANGED notSched
    \/ SchedAttempt /\ UNCHANGED notSched
    \/ SchedApplyOf /\ UNCHANGED notSched
    \/ \E c \in {"up", "down", "closing"} : RconTurns(c) /\ UNCHANGED notSched
    \/ \E key \in serverGroups : ServerDrops(key) /\ UNCHANGED notSched

\* asyncio runs the scheduler task whenever it can go on: a pass is started
\* after every sleep, an attempt ends, fetch_user ends
FairSchedRecords ==
    /\ WF_schedVars(SchedCheck)
    /\ WF_schedVars(SchedAttempt)
    /\ WF_<<schedVars, privileges>>(SchedApplyOf)

FairSpecSchedRecords == InitSchedRecords /\ [][NextSchedRecords]_vars /\ FairSchedRecords

\* ------------------------------------------------------------------------
\* The warn command and the scheduler on one store
\* ------------------------------------------------------------------------

\* the warn invocation and the member that meet the scheduler
RevokeCmds == {1}

RevokeUsers == {1}

NextRevoke ==
    \/ Tick /\ UNCHANGED <<notSched, laterVars>>
    \/ \E w \in RevokeCmds, u \in RevokeUsers :
            WarnCreate(w, u, TRUE) /\ UNCHANGED <<notSched, laterVars>>
    \/ \E w \in RevokeCmds : WarnCount(w) /\ UNCHANGED <<notSched, laterVars>>
    \/ \E w \in RevokeCmds : WarnNotify(w) /\ UNCHANGED <<notSched, laterVars>>
    \/ \E w \in RevokeCmds : FlowLookup(w) /\ UNCHANGED <<notSched, laterVars>>
    \/ \E w \in RevokeCmds, response \in RemovegroupResponses, removed, answered \in BOOLEAN :
            \E cancelled \in (IF response = None THEN BOOLEAN ELSE {FALSE}) :
                FlowRemovegroup(w, response, cancelled, removed, answered)
                /\ UNCHANGED <<notSched, laterVars>>
    \/ SchedStart /\ UNCHANGED notSched
    \/ SchedCheck /\ UNCHANGED notSched
    \/ SchedAttempt /\ UNCHANGED notSched
    \/ \E user \in {"found", "notfound", "error"} : SchedApply(user) /\ UNCHANGED notSched
    \/ \E c \in {"up", "down", "closing"} : RconTurns(c) /\ UNCHANGED notSched
    \/ \E key \in serverGroups : ServerDrops(key) /\ UNCHANGED notSched

SpecRevoke == InitSched /\ [][NextRevoke]_vars

\* ------------------------------------------------------------------------
\* Specifications of the tickets
\* ------------------------------------------------------------------------

notTickets == <<clientVars, mgrVars, warnVars, schedVars, rosterVars, grantVars, moreVars>>

InitTickets == ClientInit /\ MgrInit /\ WarnInitWith({}) /\ LaterInit

\* the submissions between the lock and the insertion of their row
Creating == {s \in Subs : tpc[s] \in {"locked", "channel", "insert"}}

\* accepts: what the store can answer to the insertion of a row
TicketStep(s, max, accepts) ==
    \/ \E guild \in Guilds, owner \in Owners, enabled, inGuild \in BOOLEAN :
            TicketSubmit(s, guild, owner, enabled, inGuild) /\ UNCHANGED notTickets
    \/ \E configured \in BOOLEAN :
            /\ Cardinality(tickets) + Cardinality(Creating) < max
            /\ nextChannelId <= MaxChannels
            /\ TicketAcquire(s, configured)
            /\ UNCHANGED notTickets
    \/ TicketNumber(s) /\ UNCHANGED notTickets
    \/ \E ok \in BOOLEAN : TicketChannel(s, ok) /\ UNCHANGED notTickets
    \/ \E ok \in accepts : TicketInsert(s, ok) /\ UNCHANGED notTickets

\* submissions that overlap, with a store that accepts every row
NextTickets ==
    \/ \E s \in Subs : TicketStep(s, MaxTickets, {TRUE})
    \/ \E t \in tickets : TicketClose(t) /\ UNCHANGED notTickets

SpecTickets == InitTickets /\ [][NextTickets]_vars

\* one submission after the other, with a store that can refuse a row
NextTicketsSeq ==
    \/ TicketStep(1, MaxSeqTickets, BOOLEAN)
    \/ \E t \in tickets : TicketClose(t) /\ UNCHANGED notTickets

SpecTicketsSeq == InitTickets /\ [][NextTicketsSeq]_vars

\* what a close leaves alone
notClose == <<clientVars, mgrVars, warnVars, schedVars, rosterVars, grantVars,
              pureVars, logVars, botVars, poolVars,
              nextChannelId, tlock, tpc, tguild, towner, tnum, tchan>>

\* tickets are created one after the other, and closed by staff and owner
NextClose ==
    \/ TicketStep(1, MaxTickets, {TRUE})
    \/ \E t \in tickets : StaffSelect(t) /\ UNCHANGED notClose
    \/ \E transcript_url \in TranscriptUrls :
            StaffTranscript(transcript_url) /\ UNCHANGED notClose
    \/ StaffStore /\ UNCHANGED notClose
    \/ StaffDelete /\ UNCHANGED notClose
    \/ \E t \in tickets : OwnerStore(t) /\ UNCHANGED notClose
    \/ OwnerDelete /\ UNCHANGED notClose

SpecClose == InitTickets /\ [][NextClose]_vars

\* ------------------------------------------------------------------------
\* Specifications of the roster
\* ------------------------------------------------------------------------

notRoster == <<clientVars, mgrVars, warnVars, schedVars, ticketVars, grantVars, moreVars>>

\* the roster of a guild whose members hold any roles
InitRosterOf ==
    /\ ClientInit /\ MgrInit /\ WarnInitWith({}) /\ SchedInit /\ TicketInit /\ GrantInit /\ MoreInit
    /\ \E guild_members \in [Members -> RoleSeqs] : RosterInitWith(guild_members, NoRecord)

NextRosterOf == RosterCompute /\ UNCHANGED notRoster

SpecRosterOf == InitRosterOf /\ [][NextRosterOf]_vars

InitRoster ==
    /\ ClientInit /\ MgrInit /\ WarnInitWith({}) /\ SchedInit /\ TicketInit /\ GrantInit /\ MoreInit
    /\ \E message_info \in {NoRecord, StoredRecord} : RosterInitWith(NoRoles, message_info)

NextRoster ==
    \/ \E sendok \in BOOLEAN : Publish(sendok) /\ UNCHANGED notRoster
    \/ \E fetch \in {"ok", "forbidden"}, editok \in BOOLEAN :
            Update(fetch, editok) /\ UNCHANGED notRoster
    \/ \E fetch \in {"ok", "forbidden"}, sendok \in BOOLEAN :
            Restore(fetch, sendok) /\ UNCHANGED notRoster
    \/ \E m \in rmessages : DeleteMessage(m) /\ UNCHANGED notRoster
    \/ \E c \in rchannels : DeleteChannel(c) /\ UNCHANGED notRoster
    \/ RosterChanges /\ UNCHANGED notRoster

SpecRoster == InitRoster /\ [][NextRoster]_vars

\* ------------------------------------------------------------------------
\* Specification of the addprivilege command
\* ------------------------------------------------------------------------

notGrant == <<clientVars, mgrVars, schedVars, ticketVars, rosterVars, moreVars>>

\* the command starts on a table privileges that has rows
InitGrant == ClientInit /\ MgrInit /\ WarnInitWith(StoredRows) /\ LaterInit

NextGrant ==
    \/ \E steamid \in SteamIds, user \in Users, inGuild \in BOOLEAN :
            /\ Len(rconLog) < MaxGrants
            /\ GrantCall(steamid, user, inGuild)
            /\ UNCHANGED notGrant
    \/ \E response \in GrantResponses, dbfail \in {"none", "user", "privilege"},
          addroles \in {"ok", "forbidden", "error"} :
            \E cancelled \in (IF response = None THEN BOOLEAN ELSE {FALSE}) :
                GrantAnswer(response, cancelled, dbfail, addroles) /\ UNCHANGED notGrant

SpecGrant == InitGrant /\ [][NextGrant]_vars

\* ------------------------------------------------------------------------
\* Specifications of functions
\* ------------------------------------------------------------------------

notPure == <<clientVars, mgrVars, warnVars, schedVars, ticketVars, rosterVars, grantVars, logVars, botVars, poolVars, closeVars>>

InitOthers ==
    /\ ClientInit /\ MgrInit /\ WarnInitWith({})
    /\ SchedInit /\ TicketInit /\ RosterInit /\ GrantInit /\ LogInit /\ BotInit /\ PoolInit /\ CloseInit

InitSelect ==
    /\ InitOthers
    /\ pin \in SelectInputs
    /\ pout = [done |-> FALSE, val |-> NoGroup]

NextSelect == SelectCall /\ UNCHANGED notPure

SpecSelect == InitSelect /\ [][NextSelect]_vars

\* ------------------------------------------------------------------------
\* The binary RCON client (src/bot.py, class RCONClient)
\* ------------------------------------------------------------------------

SERVERDATA_AUTH_RESPONSE == 2

\* the ids and types of the packets a server sends: -1 is the id of a
\* refused authentication, 0 RESPONSE_VALUE, 4 the type Rust adds
PacketIds == {-1, 1, 2}

PacketTypes == {0, SERVERDATA_AUTH_RESPONSE, 4}

\* _read_packet gave None (timeout, short or malformed packet)
NoPacket == [id |-> 0, type |-> -1]

Packets == {NoPacket} \cup [id : PacketIds, type : PacketTypes]

\* the test as it would be without the id
IsAuthResponse_AnyId(response, auth_request_id) ==
    response.type = SERVERDATA_AUTH_RESPONSE

\* authenticate: "response['type'] == self.SERVERDATA_AUTH_RESPONSE and
\* response['id'] == auth_request_id"
IsAuthResponse(response, auth_request_id) ==
    /\ response.type = SERVERDATA_AUTH_RESPONSE
    /\ response.id = auth_request_id

\* RCONClient.authenticate: <<returned value, request_id afterwards, packets
\* read>>.  sock: the socket is there; sendok: sock.send does not raise;
\* response1, response2: what the two calls of _read_packet give
authenticate(request_id, sock, sendok, response1, response2) ==
    LET auth_request_id == request_id + 1 IN
    IF ~sock THEN <<FALSE, request_id, 0>>
    ELSE IF ~sendok THEN <<FALSE, auth_request_id, 0>>
    ELSE IF response1 = NoPacket THEN <<FALSE, auth_request_id, 1>>
    ELSE IF response2 # NoPacket /\ IsAuthResponse(response2, auth_request_id)
    THEN <<TRUE, auth_request_id, 2>>
    ELSE <<IsAuthResponse(response1, auth_request_id), auth_request_id, 2>>

AuthInputs ==
    [request_id : {0, 1}, sock : BOOLEAN, sendok : BOOLEAN,
     response1 : Packets, response2 : Packets]

AuthCall ==
    /\ ~pout.done
    /\ pout' = [done |-> TRUE,
                val |-> authenticate(pin.request_id, pin.sock, pin.sendok,
                                     pin.response1, pin.response2)]
    /\ UNCHANGED pin

InitAuth ==
    /\ InitOthers
    /\ pin \in AuthInputs
    /\ pout = [done |-> FALSE, val |-> <<FALSE, 0, 0>>]

NextAuth == AuthCall /\ UNCHANGED notPure

SpecAuth == InitAuth /\ [][NextAuth]_vars

\* ------------------------------------------------------------------------
\* Specification of the bot from start to shutdown, with its scheduler
\* ------------------------------------------------------------------------

notBot == <<clientVars, mgrVars, ticketVars, rosterVars, grantVars, pureVars, logVars, poolVars, closeVars>>

InitBot == ClientInit /\ MgrInit /\ WarnInit /\ LaterInit

NextBot ==
    \/ \E dbok \in BOOLEAN, rconok \in {"ok", "failed", "raised"} :
            OnReady(dbok, rconok) /\ UNCHANGED notBot
    \/ \E schedfail, rconfail, dbfail \in BOOLEAN :
            Cleanup(schedfail, rconfail, dbfail) /\ UNCHANGED notBot
    \/ Tick /\ UNCHANGED <<notSched, laterVars>>
    \/ SchedCheck /\ UNCHANGED notSched
    \/ SchedAttempt /\ UNCHANGED notSched
    \/ \E user \in {"found", "notfound", "error"} : SchedApply(user) /\ UNCHANGED notSched
    \/ \E key \in serverGroups : ServerDrops(key) /\ UNCHANGED notSched

SpecBot == InitBot /\ [][NextBot]_vars

\* ------------------------------------------------------------------------
\* Specification of the manager with concurrent callers
\* ------------------------------------------------------------------------

notPool == <<clientVars, mgrVars, warnVars, schedVars, ticketVars, rosterVars, grantVars,
             pureVars, logVars, botVars, closeVars>>

InitPool == ClientInit /\ MgrInit /\ WarnInitWith({}) /\ LaterInit

NextPool ==
    \/ \E p \in Procs : ManagerConnect(p) /\ UNCHANGED notPool
    \/ \E p \in Procs : AfterClose(p) /\ UNCHANGED notPool
    \/ \E p \in Procs, success \in BOOLEAN : AfterConnect(p, success) /\ UNCHANGED notPool
    \/ \E p \in Procs, answered \in BOOLEAN : ManagerSend(p, answered) /\ UNCHANGED notPool
    \/ ManagerSetCallback /\ UNCHANGED notPool

SpecPool == InitPool /\ [][NextPool]_vars

\* ------------------------------------------------------------------------
\* Specification of the log endpoint
\* ------------------------------------------------------------------------

notLog == <<clientVars, mgrVars, warnVars, schedVars, ticketVars, rosterVars, grantVars, pureVars, botVars, poolVars, closeVars>>

InitLog == ClientInit /\ MgrInit /\ WarnInitWith({}) /\ LaterInit

\* the relay: not configured, bot not ready, send fails, send succeeds
RelayCases == {<<FALSE, FALSE, FALSE>>, <<TRUE, FALSE, FALSE>>, <<TRUE, TRUE, FALSE>>,
               <<TRUE, TRUE, TRUE>>}

\* a well-formed event
FullBody == [kind |-> "object", has |-> {"source", "category", "message", "timestamp"},
             strings |-> TRUE]

NextLog ==
    \/ \E auth \in AuthHeaders, body \in Bodies23, relay \in RelayCases :
            /\ Len(process_log) < MaxEvents
            /\ LogRequest("POST", "/log", auth, body, relay[1], relay[2], relay[3])
            /\ UNCHANGED notLog
    \/ \E route \in {<<"GET", "/log">>, <<"POST", "/other">>} :
            /\ Len(process_log) < MaxEvents
            /\ LogRequest(route[1], route[2], AuthToken, FullBody, TRUE, TRUE, TRUE)
            /\ UNCHANGED notLog

SpecLog == InitLog /\ [][NextLog]_vars

InitPorts ==
    /\ InitOthers
    /\ pin \in [port : BasePorts, try_ports : BOOLEAN]
    /\ pout = [done |-> FALSE, val |-> <<>>]

NextPorts == PortsCall /\ UNCHANGED notPure

SpecPorts == InitPorts /\ [][NextPorts]_vars

\* ------------------------------------------------------------------------
\* Properties of the WebRCON client
\* ------------------------------------------------------------------------

\* C1: a send_command call that returns an answer returns the Message of a
\* reply frame that carries the call's own Identifier, whatever the order in
\* which the replies arrive.
C1_OwnReply ==
    \A p \in Procs :
        call[p].how = "answer" => call[p].res \in Bodies(call[p].id)

\* two calls were outstanding together, the reply to the later one arrived
\* first, and each got its own body
C1_Witness ==
    \E p, q \in Procs :
        /\ call[p].how = "answer" /\ call[q].how = "answer"
        /\ call[p].id < call[q].id
        /\ call[p].res = Body(call[p].id) /\ call[q].res = Body(call[q].id)
        /\ call[p].res # call[q].res
        /\ lastResolved = call[p].id

\* the reader takes a frame off the socket
ReaderTakes == inbox # <<>> /\ websocket' = websocket /\ inbox' = Tail(inbox)

\* C2: a frame with Type 3 resolves no pending request, also when its
\* Identifier is that of an outstanding command; it goes to the console
\* callback when one is registered and is dropped otherwise.
C2_BroadcastResolvesNothing ==
    [][ (ReaderTakes /\ Head(inbox).Type = 3) =>
            /\ futures' = futures
            /\ pending' = pending
            /\ call' = call
            /\ console_log' = IF console_callback /\ Head(inbox).Message # ""
                              THEN Append(console_log, Head(inbox))
                              ELSE console_log
            /\ (~console_callback => console_log' = console_log) ]_vars

\* a broadcast bearing the identifier of an outstanding command has been
\* handed to the console callback and that command is still waiting
C2_Witness ==
    \E p \in Procs :
        /\ \E k \in 1..Len(console_log) :
              console_log[k].Type = 3 /\ console_log[k].Identifier = call[p].id
        /\ call[p].st = "wait"
        /\ call[p].id \in pending
        /\ futures[call[p].id].state = "pending"

\* C3: a call that ends while no reply with its identifier has arrived
\* returns None, does not raise, and its handle is out of the table.
C3_TimeoutReturnsNone ==
    [][ \A p \in Procs :
            (call[p].st = "wait" /\ futures[call[p].id].state = "pending"
                /\ call'[p].st # "wait")
            => (call'[p].st = "ret" /\ call'[p].res = None
                /\ call[p].id \notin pending') ]_vars

C3_Witness ==
    \E p \in Procs :
        /\ call[p].st = "ret" /\ call[p].how = "timeout" /\ call[p].res = None
        /\ call[p].id \notin pending
        /\ futures[call[p].id].state = "cancelled"

\* C4 as stated: once the socket is closed (by close() or by the peer, seen by
\* the reader), no call waits on a handle that was not cancelled.
C4_ClosedMeansCancelled ==
    (websocket = "none" \/ listener_task = "finished") =>
        \A p \in Procs :
            call[p].st = "wait" => futures[call[p].id].state # "pending"

\* C4, amended: when the reader sees the closure it cancels every pending
\* handle and clears the table; every call in progress eventually ends.
C4_ReaderCancelsAndCallsEnd ==
    /\ [][ (listener_task = "running" /\ listener_task' = "finished") =>
              /\ pending' = {}
              /\ \A i \in pending : futures'[i].state # "pending" ]_vars
    /\ \A p \in Procs : (call[p].st = "wait") ~> (call[p].st # "wait")

\* the peer closed the socket while a command was outstanding and the call
\* was ended by the cancellation
C4_Witness ==
    \E p \in Procs :
        /\ websocket = "closed" /\ listener_task = "finished"
        /\ call[p].how = "cancelled"
        /\ futures[call[p].id].state = "cancelled"


\* ------------------------------------------------------------------------
\* Properties of the RCON manager
\* ------------------------------------------------------------------------

\* C5: within one RCONManager.send_command a missing first answer leads to
\* one reconnect; a successful reconnect to one re-send; the command goes to
\* the client at most twice and the retry's outcome is returned as it is.
C5_RetryOnce ==
    /\ [](/\ nTx <= 2
          /\ nReconn <= 1
          /\ (nTx = 2 => nReconn = 1)
          /\ (mphase = 2 <=> nReconn = 1))
    /\ [][ (mpc = "send" /\ mphase = 1 /\ call[1].st = "ret" /\ ~Truthy(call[1].res)
              /\ mpc' # "send")
           => (nReconn' = 1 /\ mpc' = "dial" /\ nTx' = 1) ]_vars
    /\ [][ (mpc = "connected" /\ mphase = 2 /\ mpc' # "connected")
           => (mpc' = "send" /\ nTx' = 2) ]_vars
    /\ [][ (mpc = "send" /\ mphase = 2 /\ call[1].st = "ret" /\ mpc' # "send")
           => (/\ mpc' = "idle"
               /\ mout'.val = call[1].res
               /\ mout'.kind = IF Truthy(call[1].res) THEN "answer" ELSE "absent"
               /\ nTx' = 2 /\ nReconn' = 1) ]_vars

\* the first attempt got no answer, the manager reconnected, re-sent and
\* returned the retry's answer
C5_Witness ==
    /\ mop = "send" /\ mpc = "idle" /\ mphase = 2
    /\ nTx = 2 /\ nReconn = 1
    /\ mout.kind = "answer"

\* C6: a finished RCONManager.send_command has given its caller an answer or
\* absence; no exception has reached the caller.
C6_AnswerOrAbsence ==
    (mop = "send" /\ mpc = "idle") => mout.kind \in {"answer", "absent"}


\* ------------------------------------------------------------------------
\* Properties of the warning command and its revocation flow
\* ------------------------------------------------------------------------

\* the rows of table warnings of a member
WarningsOf(T, u) == {r \in T : r.discord_id = u}

\* the rows of table privileges of a member
PrivilegesOf(T, u) == {r \in T : r.discord_id = u}

C8_NoPrivilegeNoEffect ==
    [][ \A w \in Cmds :
            ( /\ wpc[w] = "lookup" /\ wpc'[w] # "lookup"
              /\ ~\E r \in PrivilegesOf(privileges, wuser[w]) :
                    r.expires_at = NULL \/ r.expires_at > now \/ r.permanent )
            => ( /\ wpc'[w] = "done"
                 /\ rconLog' = rconLog
                 /\ roles' = roles
                 /\ privileges' = privileges
                 /\ warnings' = warnings ) ]_vars

\* the flow ran for a member whose only rows have expired and stopped
C8_Witness ==
    \E w \in Cmds :
        /\ wstarted[w] /\ wpc[w] = "done" /\ fend[w] = "no privilege"
        /\ PrivilegesOf(privileges, wuser[w]) # {}
        /\ rconLog = <<>>

C10_RevocationCompletes ==
    [][ \A w \in Cmds :
            ( /\ wpc[w] = "removegroup" /\ wpc'[w] = "done"
              /\ fend'[w] # "CancelledError"
              /\ parse_removegroup_response(wresp'[w])
              /\ <<wpriv[w].steamid, Lower(wpriv[w].group_name)>> \notin serverGroups' )
            => ( /\ PrivilegesOf(privileges', wuser[w]) = {}
                 /\ WarningsOf(warnings', wuser[w]) = {} ) ]_vars

\* ------------------------------------------------------------------------
\* Properties of the scheduler
\* ------------------------------------------------------------------------

\* C11: the scheduler removes the role, deletes the row and notifies only
\* after one of at most MAX_REMOVAL_RETRIES pinfo attempts was answered
\* without the group; when the last attempt fails too, the row, the roles
\* and the notifications are left as they are.
C11_OnlyWhenVerifiedAbsent ==
    /\ [](sattempt <= MAX_REMOVAL_RETRIES /\ (spc = "verify" => sattempt < MAX_REMOVAL_RETRIES))
    /\ [][ (spc = "verify" /\ spc' = "apply") =>
              /\ rcon = "up"
              /\ <<scur.steamid, Lower(scur.group_name)>> \notin serverGroups ]_vars
    /\ [][ (privileges' # privileges \/ roles' # roles \/ snotices' # snotices) =>
              /\ spc = "apply"
              /\ privileges' = privileges \ {scur}
              /\ roles \ roles' \subseteq {<<scur.discord_id, RoleMapping(Lower(scur.group_name))>>}
              /\ snotices' \ snotices \subseteq {<<scur.discord_id, scur.group_name>>} ]_vars
    /\ [][ (spc = "verify" /\ sattempt = MAX_REMOVAL_RETRIES - 1 /\ spc' # "apply") =>
              /\ privileges' = privileges
              /\ roles' = roles
              /\ snotices' = snotices ]_vars

\* one expired row was verified absent and removed with its role and a
\* notification, another ran out of attempts and is still stored
C11_Witness ==
    \E r \in StoredRows, q \in privileges :
        /\ r.id \in sdone /\ r \notin privileges
        /\ <<r.discord_id, r.group_name>> \in snotices
        /\ <<r.discord_id, RoleMapping(Lower(r.group_name))>> \notin roles
        /\ RoleMapping(Lower(r.group_name)) # 0
        /\ q.id \in sfailed /\ q.id \notin sdone


\* C12: an expired row whose verification budget was exhausted is eventually
\* deleted once the game server answers pinfo without the group from then on
C12_ExhaustedRowEventuallyDeleted ==
    \A r \in StoredRows :
        (/\ r.id \in sfailed
         /\ r \in privileges
         /\ [](rcon = "up" /\ <<r.steamid, Lower(r.group_name)>> \notin serverGroups))
        ~> (r \notin privileges)

\* ------------------------------------------------------------------------
\* Properties of the warn command and the scheduler together
\* ------------------------------------------------------------------------

OwnsOpenTicket(guild, owner) ==
    \E t \in tickets : t.guild_id = guild /\ t.owner_id = owner /\ t.status = "open"

\* C14: a submission by a user who owns an open ticket in the guild is
\* refused: it creates no channel and no row and reads no ticket number, and
\* it stays refused
C14_OpenTicketRefuses ==
    /\ [][\A s \in Subs :
            (/\ tpc[s] \in Ended
             /\ <<tpc[s], tguild[s], towner[s], tnum[s], tchan[s]>>
                    # <<tpc'[s], tguild'[s], towner'[s], tnum'[s], tchan'[s]>>
             /\ OwnsOpenTicket(tguild'[s], towner'[s]))
            => /\ tpc'[s] = "refused"
               /\ tickets' = tickets
               /\ channels' = channels
               /\ tlock' = tlock
               /\ tnum'[s] = 0]_vars
    /\ [][\A s \in Subs :
            (tpc[s] = "refused" /\ tpc'[s] # "refused")
            => tpc'[s] \in {"idle", "create"}]_vars
    /\ [](\A s \in Subs : tpc[s] = "refused" => tnum[s] = 0 /\ tchan[s] = 0 /\ tlock # s)

C14_Witness ==
    \E s \in Subs :
        /\ tpc[s] = "refused"
        /\ OwnsOpenTicket(tguild[s], towner[s])
        /\ \E t \in tickets : t.owner_id = towner[s] /\ t.status = "closed"
        /\ Cardinality(channels) = Cardinality({t \in tickets : t.status = "open"})

\* C15: no two rows of tickets of one guild have the same ticket_number
C15_UniqueNumbers ==
    \A a, b \in tickets :
        (a.guild_id = b.guild_id /\ a.ticket_number = b.ticket_number) => a = b

TicketsOf(guild) == {t \in tickets : t.guild_id = guild}

\* C16: the tickets created one after the other in a guild are numbered
\* 1, 2, 3, ... without gap or repetition, closed tickets included, each
\* guild on its own
C16_Gapless ==
    \A g \in Guilds :
        /\ {t.ticket_number : t \in TicketsOf(g)} = 1..Cardinality(TicketsOf(g))
        /\ \A a, b \in TicketsOf(g) : a.id < b.id => a.ticket_number < b.ticket_number

C16_Witness ==
    /\ \E a, b \in TicketsOf(1) :
          a.ticket_number = 1 /\ a.status = "closed" /\ b.ticket_number = 2
    /\ \E c \in TicketsOf(2) : c.ticket_number = 1

\* ------------------------------------------------------------------------
\* Properties of the roster
\* ------------------------------------------------------------------------

BucketsOf(m) == {b \in Buckets : m \in roster.buckets[b]}

\* the configured roles a member holds whose group is in the hierarchy
RankedRoles(m) ==
    {members[m][k] : k \in DOMAIN members[m]}
    \cap {r \in RoleIds : role_to_category(r) # NoBucket /\ get_role_priority(r) < LowestPriority}

\* C17: the computed roster has each member in at most one (category, role)
\* bucket, and a member with configured roles of the hierarchy in the bucket
\* of the one whose group has the lowest index
C17_OneBucketHighestRole ==
    roster.computed =>
        \A m \in Members :
            /\ Cardinality(BucketsOf(m)) <= 1
            /\ \A r \in RankedRoles(m) :
                  (\A o \in RankedRoles(m) : get_role_priority(r) <= get_role_priority(o))
                  => BucketsOf(m) = {role_to_category(r)}

C17_Witness ==
    /\ roster.computed
    /\ \E m \in Members :
          /\ Cardinality(RankedRoles(m)) >= 2
          /\ Head(members[m]) \in RankedRoles(m)
          /\ BucketsOf(m) # {role_to_category(Head(members[m]))}
          /\ Cardinality(BucketsOf(m)) = 1

RestoreStep == rout'.n # rout.n /\ rout'.op = "restore"

Sent(channel_id) ==
    /\ nextMessageId' = nextMessageId + 1
    /\ rmessages' = rmessages \cup
            {[id |-> nextMessageId, channel_id |-> channel_id, fresh |-> TRUE]}
    /\ record' = [channel_id |-> channel_id, message_id |-> nextMessageId]
    /\ rout'.msg = nextMessageId

\* restore, the record exists and so does the message: it is returned and
\* nothing changes
RestoreReturns ==
    (/\ RestoreStep
     /\ record # NoRecord
     /\ record.channel_id \in rchannels
     /\ MessageExists(record)
     /\ rout'.fetch = "ok")
    => /\ rout'.msg = record.message_id
       /\ UNCHANGED <<record, rmessages, nextMessageId>>

\* restore, the recorded message was deleted: a new message goes into the
\* same channel and the record points to it
RestoreRepublishes ==
    (/\ RestoreStep
     /\ record # NoRecord
     /\ record.channel_id \in rchannels
     /\ ~MessageExists(record)
     /\ rout'.fetch = "ok"
     /\ rout'.sendok)
    => Sent(record.channel_id)

\* C18 as stated: without a record restore behaves like publish (a roster
\* message is sent into the configured channel and recorded); with record
\* and message it returns the message; with the message deleted it
\* republishes into the same channel
C18_RestoreLikePublish ==
    [][/\ (/\ RestoreStep
           /\ record = NoRecord
           /\ ADMIN_LIST_CHANNEL \in rchannels
           /\ rout'.sendok)
          => Sent(ADMIN_LIST_CHANNEL)
       /\ RestoreReturns
       /\ RestoreRepublishes]_vars

\* C18: without a record restore returns nothing, sends nothing and records
\* nothing; with record and message it returns the message and changes
\* nothing; with the message deleted it republishes into the same channel and
\* the record points to the new message
C18_RestoreNeedsRecord ==
    [][/\ (RestoreStep /\ record = NoRecord)
          => /\ rout'.msg = 0
             /\ UNCHANGED <<record, rmessages, nextMessageId>>
       /\ RestoreReturns
       /\ RestoreRepublishes]_vars

C18_Witness ==
    /\ rout.op = "restore"
    /\ rout.msg # 0
    /\ record = [channel_id |-> StoredRecord.channel_id, message_id |-> rout.msg]
    /\ rout.msg # StoredRecord.message_id
    /\ \E m \in rmessages : m.id = rout.msg /\ m.channel_id = record.channel_id
    /\ ~\E m \in rmessages : m.id = StoredRecord.message_id

\* ------------------------------------------------------------------------
\* Properties of the addprivilege command
\* ------------------------------------------------------------------------

SeventeenDigits(steamid) ==
    /\ Len(steamid) = SteamIdLength
    /\ \A i \in 1..SteamIdLength : IsDigit(steamid[i])

\* C19: an invocation with an identifier that is not exactly 17 decimal
\* digits ends with the validation error; it gives no command to the remote
\* console and writes nothing to the database
C19_InvalidRejected ==
    [][(gn' # gn /\ ~SeventeenDigits(gsteamid') /\ gend' # "no guild")
       => /\ gend' = "invalid"
          /\ gpc' = "idle"
          /\ rconLog' = rconLog
          /\ UNCHANGED <<users, privileges>>]_vars

\* the parsed answer has a group of GROUP_NAME_DATABASE that is in
\* GROUP_HIERARCHY
RecognizedAndRanked(response) ==
    \E k \in 1..Len(parse_pinfo_response(response).groups) :
        LET name == Lower(parse_pinfo_response(response).groups[k].name)
        IN  InSeq(name, GROUP_NAME_DATABASE) /\ InSeq(name, GROUP_HIERARCHY)

AnyRecognized(response) ==
    \E k \in 1..Len(parse_pinfo_response(response).groups) :
        InSeq(Lower(parse_pinfo_response(response).groups[k].name), GROUP_NAME_DATABASE)

\* C20: a run whose pinfo answer has a recognized and ranked group (and
\* whose statements the database accepts) upserts the User row and inserts
\* exactly one Privilege row; a run without an answer, with an answer that
\* parses to no privileges, or with no recognized group writes neither
C20_OneRowOrNone ==
    [][(gpc = "pinfo" /\ gpc' = "idle") =>
        /\ (/\ gend' # "CancelledError"
            /\ gresp' # None
            /\ RecognizedAndRanked(gresp')
            /\ gdb' = "none")
           => /\ privileges \subseteq privileges'
              /\ Cardinality(privileges' \ privileges) = 1
              /\ \A r \in privileges' \ privileges :
                    r.discord_id = guser /\ r.steamid = gsteamid
              /\ [discord_id |-> guser, steamid |-> gsteamid] \in users'
              /\ Cardinality({u \in users' : u.discord_id = guser}) = 1
        /\ (\/ gend' = "CancelledError"
            \/ gresp' = None
            \/ gresp' = <<>>
            \/ ~parse_pinfo_response(gresp').has_privileges
            \/ ~AnyRecognized(gresp'))
           => UNCHANGED <<users, privileges>>]_vars

C20_Witness ==
    /\ gend = "granted"
    /\ Len(parse_pinfo_response(gresp).groups) = 3
    /\ \E r \in privileges \ StoredRows :
          /\ r.discord_id = guser
          /\ r.group_name = "admin"
          /\ r.expires_at = utc_to_msk(2)
    /\ \E r \in privileges \cap StoredRows : r.discord_id = guser
    /\ [discord_id |-> guser, steamid |-> gsteamid] \in users

\* ------------------------------------------------------------------------
\* Properties of select_highest_group
\* ------------------------------------------------------------------------

\* the name is in the allow-list, whatever the case of either
InDatabase(name) ==
    \E k \in 1..Len(pin.database) : Lower(pin.database[k]) = Lower(name)

\* the rank of a name when the hierarchy is compared whatever the case of
\* either: 0 for none
RankAnyCase(name) ==
    IF \E h \in 1..Len(pin.hierarchy) : Lower(pin.hierarchy[h]) = Lower(name)
    THEN CHOOSE h \in 1..Len(pin.hierarchy) :
            /\ Lower(pin.hierarchy[h]) = Lower(name)
            /\ \A i \in 1..(h - 1) : Lower(pin.hierarchy[i]) # Lower(name)
    ELSE 0

\* the rank of a name when its lower-cased form is looked up among the
\* entries of the hierarchy as they are written: 0 for none
RankAsWritten(name) ==
    IF \E h \in 1..Len(pin.hierarchy) : pin.hierarchy[h] = Lower(name)
    THEN CHOOSE h \in 1..Len(pin.hierarchy) :
            /\ pin.hierarchy[h] = Lower(name)
            /\ \A i \in 1..(h - 1) : pin.hierarchy[i] # Lower(name)
    ELSE 0

\* the positions of the groups in both lists, under a rank
Eligible(Rank(_)) ==
    {k \in 1..Len(pin.groups) : InDatabase(pin.groups[k].name) /\ Rank(pin.groups[k].name) # 0}

\* val is the eligible group of the lowest rank, the first of them, or
\* NoGroup when none is eligible
IsHighest(val, Rank(_)) ==
    IF Eligible(Rank) = {} THEN val = NoGroup
    ELSE \E k \in Eligible(Rank) :
            /\ val = pin.groups[k]
            /\ \A j \in Eligible(Rank) : Rank(pin.groups[k].name) <= Rank(pin.groups[j].name)
            /\ \A j \in Eligible(Rank) :
                    j < k => Rank(pin.groups[k].name) < Rank(pin.groups[j].name)

\* C21, as stated: the result is, among the groups whose name is in the
\* allow-list and in the hierarchy, both whatever the case, the one of the
\* lowest hierarchy index, the first found on a tie, and absent when there
\* is none
C21_HighestAnyCase == pout.done => IsHighest(pout.val, RankAnyCase)

\* C21, amended: the same with the lower-cased name looked up among the
\* hierarchy entries as they are written
C21_HighestAsWritten == pout.done => IsHighest(pout.val, RankAsWritten)

\* hierarchy [owner, admin, moderator] and groups [moderator, admin] give admin
C21_Witness ==
    /\ pout.done
    /\ pin.hierarchy = <<"owner", "admin", "moderator">>
    /\ Len(pin.groups) = 2
    /\ pin.groups[1].name = "moderator"
    /\ pin.groups[2].name = "admin"
    /\ pout.val = pin.groups[2]

\* ------------------------------------------------------------------------
\* Properties of the candidate ports
\* ------------------------------------------------------------------------

\* base, base-2, base+2, base-10, base+10
Candidates(base) == <<base, base - 2, base + 2, base - 10, base + 10>>

InRange(p) == p >= 1 /\ p <= 65535

\* the position of p in q, 0 for none
Position(p, q) ==
    IF \E k \in 1..Len(q) : q[k] = p THEN CHOOSE k \in 1..Len(q) : q[k] = p ELSE 0

\* C22: with try_ports the list has each candidate that lies in 1..65535
\* once and nothing else, in the order of the candidates; base 28016 gives
\* 28016, 28014, 28018, 28006, 28026 and base 5 gives 5, 3, 7, 15
C22_CandidatePorts ==
    (pout.done /\ pin.try_ports) =>
        LET c == Candidates(pin.port)
            q == pout.val
        IN  /\ \A k \in 1..Len(q) : InRange(q[k]) /\ \E i \in 1..5 : c[i] = q[k]
            /\ \A i \in 1..5 : InRange(c[i]) => \E k \in 1..Len(q) : q[k] = c[i]
            /\ \A k, l \in 1..Len(q) : k # l => q[k] # q[l]
            /\ \A i, j \in 1..5 :
                  (i < j /\ InRange(c[i]) /\ InRange(c[j]) /\ c[i] # c[j])
                      => Position(c[i], q) < Position(c[j], q)
            /\ pin.port = 28016 => q = <<28016, 28014, 28018, 28006, 28026>>
            /\ pin.port = 5 => q = <<5, 3, 7, 15>>

C22_Witness ==
    /\ pout.done
    /\ pin.try_ports
    /\ pin.port = 5
    /\ Len(pout.val) = 4

\* ------------------------------------------------------------------------
\* Properties of the log endpoint
\* ------------------------------------------------------------------------

\* the body is a JSON object with the four fields
Complete(body) ==
    body.kind = "object" /\ body.has = {"source", "category", "message", "timestamp"}

\* C23: a request is logged or relayed only when it is a POST /log whose
\* Auth header is the token and whose body has the four fields; a POST /log
\* with another Auth header is answered 401 whatever its body; one with the
\* token and a body that is malformed or lacks a field is answered 400; in
\* both cases nothing is logged or relayed
C23_OnlyAuthorizedComplete ==
    [][ln' # ln =>
        /\ (process_log' # process_log \/ channel_log' # channel_log)
              => /\ lreq'.method = "POST" /\ lreq'.path = "/log"
                 /\ lreq'.auth = AuthToken
                 /\ Complete(lreq'.body)
        /\ (lreq'.method = "POST" /\ lreq'.path = "/log" /\ lreq'.auth # AuthToken)
              => lresp' = 401 /\ UNCHANGED <<process_log, channel_log>>
        /\ (/\ lreq'.method = "POST" /\ lreq'.path = "/log" /\ lreq'.auth = AuthToken
            /\ ~Complete(lreq'.body))
              => lresp' = 400 /\ UNCHANGED <<process_log, channel_log>>]_vars

\* ------------------------------------------------------------------------
\* Properties of the identifiers of one client
\* ------------------------------------------------------------------------

\* the frame the reader takes next is a reply that bears the identifier of
\* a command whose wait has timed out
LateReply(f) ==
    /\ f.Type = 0
    /\ f.Identifier \in 1..Len(futures)
    /\ futures[f.Identifier].state = "cancelled"
    /\ \E p \in Procs : call[p].id = f.Identifier /\ call[p].how = "timeout"

\* C24: the identifier only grows; a call that sends takes an identifier
\* above every identifier taken before, one no other call holds; the reader
\* drops a reply that bears the identifier of a timed-out command without
\* touching a Future, the table or a call, and a call that returns an answer
\* returns a reply to its own identifier
C24_IdentifiersNeverReused ==
    [][/\ identifier' >= identifier
       /\ \A p \in Procs :
            (call'[p].id # call[p].id /\ call'[p].id # 0)
                => /\ call'[p].id = identifier'
                   /\ identifier' = identifier + 1
                   /\ Len(futures') = identifier'
                   /\ \A q \in Procs : q # p => call'[q].id # call'[p].id
       /\ (ReaderTakes /\ LateReply(Head(inbox)))
            => UNCHANGED <<futures, pending, call, identifier>>
       /\ \A p \in Procs :
            (call'[p].how = "answer" /\ call[p].how # "answer")
                => \E i \in 1..Len(futures) :
                      /\ i = call[p].id
                      /\ futures[i].state = "result"
                      /\ call'[p].res = futures[i].value
                      /\ call'[p].res \in Bodies(i)]_vars

\* a reply to a timed-out command is on its way to the reader while a later
\* command waits for its own
C24_Witness ==
    /\ listener_task = "running"
    /\ \E k \in 1..Len(inbox) :
          /\ LateReply(inbox[k])
          /\ \E q \in Procs :
                /\ call[q].st = "wait"
                /\ call[q].id > inbox[k].Identifier
                /\ call[q].id \in pending

\* ------------------------------------------------------------------------
\* Properties of the reader task
\* ------------------------------------------------------------------------

\* C25: at most one reader task of the client is alive, and it is the one
\* the client holds; a step of send_command takes no frame off the socket
C25_OneReader ==
    /\ [](readers <= 1 /\ (readers = 1 <=> listener_task = "running"))
    /\ [][call' # call => inbox' = inbox]_vars

\* the peer closed the connection under a waiting call, the reader ended,
\* and after close and a new connect the one reader serves a later call
C25_Witness ==
    /\ readers = 1
    /\ listener_task = "running"
    /\ \E p, q \in Procs :
          /\ call[p].how = "cancelled"
          /\ call[q].how = "answer"
          /\ call[q].id > call[p].id

\* ------------------------------------------------------------------------
\* Properties of WebRCONClient.connect
\* ------------------------------------------------------------------------

\* the combination after (i, j): the next URI of the port, then the first
\* URI of the next port
NextOf(i, j) == IF j < Len(UriVariants) THEN <<i, j + 1>> ELSE <<i + 1, 1>>

LastCombo(i, j) == i = Len(PortsToTry(RCON_PORT)) /\ j = Len(UriVariants)

\* the probe of the current combination has ended without a non-empty reply
ProbeFailed ==
    /\ mpc = "probe"
    /\ call[1].st \in {"ret", "raised"}
    /\ ~(call[1].st = "ret" /\ Truthy(call[1].res))

\* C26: connect starts at the first port and the first URI and moves from a
\* combination only to the next one; when the probe of a combination ends
\* without a non-empty reply the socket is closed and the next combination
\* is tried, or connect returns false when it was the last; when the probe
\* is answered connected_port is the port of that combination and connect
\* returns true; connect returns false only after the last combination
C26_FirstPassingCombination ==
    [][/\ (mpc # "dial" /\ mpc' = "dial" /\ mpc \notin {"probe", "dialled"})
            => ci' = 1 /\ cj' = 1
       /\ (mpc \in {"dial", "probe"} /\ mpc' = "dial")
            => <<ci', cj'>> = NextOf(ci, cj)
       /\ (ProbeFailed /\ mpc' # "probe")
            => /\ websocket' = "none"
               /\ IF LastCombo(ci, cj)
                  THEN mpc' = "idle" /\ mop = "connect" => mout' = [kind |-> "connected", val |-> "False"]
                  ELSE mpc' = "dial" /\ <<ci', cj'>> = NextOf(ci, cj)
       /\ (mpc = "probe" /\ mpc' # "probe" /\ call[1].st = "ret" /\ Truthy(call[1].res))
            => /\ connected_port' = PortsToTry(RCON_PORT)[ci]
               /\ mop = "connect" => mout' = [kind |-> "connected", val |-> "True"]
       /\ (mout' # mout /\ mout' = [kind |-> "connected", val |-> "False"])
            => LastCombo(ci, cj)]_vars

\* ------------------------------------------------------------------------
\* Properties of the revocation flow after the removegroup answer
\* ------------------------------------------------------------------------

\* C27: a flow whose removegroup answer is a text without any success phrase
\* still performs the pinfo re-check, and when the re-check shows the group
\* absent all Privilege rows and all Warning rows of the member are deleted.
C27_HeuristicNeverStops ==
    [][ \A w \in Cmds :
            ( /\ wpc[w] = "removegroup" /\ wpc'[w] = "done"
              /\ fend'[w] # "CancelledError"
              /\ wresp'[w] # None /\ wresp'[w] # <<>>
              /\ ~parse_removegroup_response(wresp'[w]) )
            => ( /\ wpinfo'[w] # "none"
                 /\ wpinfo'[w] = "absent" =>
                        /\ PrivilegesOf(privileges', wuser[w]) = {}
                        /\ WarningsOf(warnings', wuser[w]) = {} ) ]_vars


\* ------------------------------------------------------------------------
\* Properties of the scheduler with a row whose processing always fails
\* ------------------------------------------------------------------------

\* C29: while the scheduler task runs, an expired row of a member fetch_user
\* can be called for is eventually deleted once the game server answers
\* pinfo without the group from then on, also when the processing of
\* another expired row raises every time.
C29_OthersEventuallyHandled ==
    \A q \in {r \in RowsOfTwoMembers : r.discord_id \notin Unfetchable} :
        (/\ running /\ spc # "none"
         /\ q \in get_expired_privileges
         /\ [](/\ rcon = "up" /\ spc # "dead"
               /\ <<q.steamid, Lower(q.group_name)>> \notin serverGroups))
        ~> (q \notin privileges)


\* ------------------------------------------------------------------------
\* Properties of AdminListManager.update
\* ------------------------------------------------------------------------

\* a step that is a call of update
UpdateStep == rout' # rout /\ rout'.op = "update"

\* the recorded message after the step shows the roster computed in the step
EditedInPlace ==
    /\ rout'.done
    /\ rout'.msg = record.message_id
    /\ roster' = [computed |-> TRUE, buckets |-> get_admin_members_by_category(members)]
    /\ \E m \in rmessages' : m.id = record.message_id /\ m.fresh

\* update sends no message and creates no record
NeverSendsNorCreates ==
    UpdateStep =>
        /\ nextMessageId' = nextMessageId
        /\ {m.id : m \in rmessages'} = {m.id : m \in rmessages}
        /\ record' \in {record, NoRecord}

\* update without a record: nothing changes, failure
NoRecordNoChange ==
    (UpdateStep /\ record = NoRecord) =>
        /\ ~rout'.done
        /\ UNCHANGED <<members, roster, record, rmessages, nextMessageId, rchannels>>

\* C30 as stated: update sends nothing and creates no record; without a
\* record it changes nothing; with a record whose channel or message is gone
\* it deletes the record and fails; in every other case it edits the
\* recorded message and keeps the record.
C30_UpdateEditsOrClears ==
    [][/\ NeverSendsNorCreates
       /\ NoRecordNoChange
       /\ (/\ UpdateStep /\ record # NoRecord
           /\ (record.channel_id \notin rchannels \/ ~MessageExists(record)))
          => (record' = NoRecord /\ ~rout'.done)
       /\ (/\ UpdateStep /\ record # NoRecord
           /\ record.channel_id \in rchannels /\ MessageExists(record))
          => (EditedInPlace /\ record' = record)]_vars

\* C30: update sends nothing and creates no record; without a record it
\* changes nothing; with a record whose channel is gone, or whose message
\* fetch_message is allowed to look for and does not find, it deletes the
\* record and fails; when fetch_message is forbidden it changes nothing and
\* fails; with channel and message there and the fetch allowed the record
\* stays, and the message is edited in place unless the edit itself raises.
C30_UpdateEditsWhenAllowed ==
    [][/\ NeverSendsNorCreates
       /\ NoRecordNoChange
       /\ (/\ UpdateStep /\ record # NoRecord
           /\ \/ record.channel_id \notin rchannels
              \/ (rout'.fetch = "ok" /\ ~MessageExists(record)))
          => (record' = NoRecord /\ ~rout'.done /\ rmessages' = rmessages)
       /\ (/\ UpdateStep /\ record # NoRecord
           /\ record.channel_id \in rchannels /\ rout'.fetch = "forbidden")
          => (~rout'.done /\ UNCHANGED <<roster, record, rmessages>>)
       /\ (/\ UpdateStep /\ record # NoRecord
           /\ record.channel_id \in rchannels /\ rout'.fetch = "ok"
           /\ MessageExists(record))
          => /\ record' = record
             /\ IF rout'.sendok THEN EditedInPlace
                ELSE ~rout'.done /\ rmessages' = rmessages]_vars

\* update has edited the recorded message in place: the record, written by a
\* publish since the start, is still there, the message shows the roster and
\* no message was sent after it
C30_Witness ==
    /\ rout.op = "update" /\ rout.done
    /\ record # NoRecord /\ record # StoredRecord
    /\ rout.msg = record.message_id
    /\ \E m \in rmessages : m.id = record.message_id /\ m.fresh
    /\ nextMessageId = record.message_id + 1


\* ------------------------------------------------------------------------
\* Properties of the roster for roles outside the hierarchy
\* ------------------------------------------------------------------------

\* the configured roles a member holds
ConfiguredRoles(m) ==
    {members[m][k] : k \in DOMAIN members[m]}
    \cap {r \in RoleIds : role_to_category(r) # NoBucket}

\* C31: in the computed roster a member whose only configured role has no
\* group mapping, or a group outside the hierarchy, is in the bucket of that
\* role.
C31_UnrankedRoleListed ==
    roster.computed =>
        \A m \in Members : \A r \in ConfiguredRoles(m) :
            (ConfiguredRoles(m) = {r} /\ get_role_priority(r) = LowestPriority)
            => m \in roster.buckets[role_to_category(r)]


\* ------------------------------------------------------------------------
\* Properties of the start and the shutdown of the bot
\* ------------------------------------------------------------------------

\* C32: when cleanup failed in stopping the scheduler, the remote-console
\* manager and the database pool are closed all the same, and when it failed
\* in closing the manager the pool is closed all the same.
C32_FailureDoesNotPrevent ==
    /\ bcleanup = "scheduler" => (brcon # "open" /\ bdb # "open")
    /\ bcleanup = "rcon" => bdb # "open"

\* C33: after on_ready has ended without raising, the cogs of the privilege,
\* warning, roster and ticket command modules are loaded and the scheduler
\* was started.
C33_AllModulesRegistered ==
    bready = "done" =>
        /\ {"privilege", "warn", "admin", "tickets"} \subseteq cogs
        /\ bsched # "none"


\* ------------------------------------------------------------------------
\* Properties of the binary RCON client
\* ------------------------------------------------------------------------

\* the packets authenticate read among the two the server had for it
PacketsRead ==
    IF pout.val[3] = 0 THEN {}
    ELSE IF pout.val[3] = 1 THEN {pin.response1}
    ELSE {pin.response1, pin.response2}

\* C34: authenticate returns True only if a packet it read, the first or the
\* second, has type AUTH_RESPONSE and the id of the AUTH request sent.
C34_AuthNeedsTypeAndId ==
    (pout.done /\ pout.val[1]) =>
        \E p \in PacketsRead \ {NoPacket} :
            /\ p.type = SERVERDATA_AUTH_RESPONSE
            /\ p.id = pin.request_id + 1

\* authenticate returned True on the first packet, the second one being an
\* AUTH_RESPONSE with another id
C34_Witness ==
    /\ pout.done /\ pout.val[1]
    /\ pin.response2.type = SERVERDATA_AUTH_RESPONSE
    /\ pin.response2.id # pin.request_id + 1
    /\ pin.response1.id = pin.request_id + 1


\* ------------------------------------------------------------------------
\* Properties of the table of pending requests
\* ------------------------------------------------------------------------

\* C35: the identifier of a send_command call that has returned or raised is
\* not in _pending_responses; the table holds only identifiers of calls
\* that are waiting.
C35_TableHoldsOnlyWaiting ==
    /\ \A p \in Procs : call[p].st \in {"ret", "raised"} => call[p].id \notin pending
    /\ pending \subseteq {call[p].id : p \in {q \in Procs : call[q].st = "wait"}}


\* ------------------------------------------------------------------------
\* Properties of the manager with concurrent callers
\* ------------------------------------------------------------------------

\* C36: whenever no call of the manager is in progress, every client it has
\* created other than the one it references is closed or never had a socket.
C36_OnlyReferencedClientOpen ==
    (\A p \in Procs : kpc[p] = "idle") =>
        \A c \in DOMAIN clients : clients[c] = "open" => c = cref


\* C37: once a console callback was installed through the manager, the
\* connected client the manager references has it (the reader hands Type 3
\* frames to the callback of its own client only), also after reconnects.
C37_CallbackSurvivesReconnect ==
    (\E c \in DOMAIN cbs : cbs[c]) =>
        (cref # 0 /\ clients[cref] = "open" => cbs[cref])


\* ------------------------------------------------------------------------
\* Properties of addprivilege runs that report a failure
\* ------------------------------------------------------------------------

\* how a run ends when its last message to the invoker is an error embed
ReportedFailures == {"invalid", "no answer", "no group", "db error", "forbidden"}

\* C38: a run of addprivilege that ends by reporting a failure to the
\* invoker (the role grant is forbidden, the database refuses, no answer)
\* has stored no Privilege row: the table privileges is unchanged.
C38_FailureStoresNothing ==
    [][(gpc = "pinfo" /\ gpc' = "idle" /\ gend' \in ReportedFailures)
       => privileges' = privileges]_vars


\* ------------------------------------------------------------------------
\* Properties of closing tickets and of failed creations
\* ------------------------------------------------------------------------

\* C39: once a ticket is closed, its closing record (status closed and the
\* transcript url stored at closing) never changes afterwards, also when a
\* staff close and an owner close of the ticket overlap.
C39_ClosingRecordKept ==
    [][\A t \in tickets : t.status = "closed" => t \in tickets']_vars


\* C40: every channel the ticket workflow created has a Ticket row that
\* references it, once the creation that made it has ended (also when it
\* ended in a failure).
C40_NoChannelWithoutRow ==
    \A c \in channels :
        \/ \E t \in tickets : t.channel_id = c.id
        \/ \E s \in Subs : tpc[s] = "insert" /\ tchan[s] = c.id

====
